---- MODULE Spec2Model ----
(***************************************************************************)
(* Incremental export pipeline of quip-exporter: the folder tree walker    *)
(* (api/endpoints.py), the export orchestrator with its change-detection    *)
(* manifest (export/exporter.py, export/manifest.py), the asset            *)
(* relocation step (conversion/html_processor.py) and the retrying         *)
(* gateway (api/client.py, utils/network.py).                              *)
(*                                                                         *)
(* Python strings are sequences of one-character strings, so that          *)
(* lower(), slugify(), split() and the lexicographic order of the sort     *)
(* keys are computed and not assumed.                                      *)
(***************************************************************************)
EXTENDS Integers, Sequences, FiniteSets, TLC

\* ------------------------------------------------------------------ bounds

\* Longest children listing one remote folder returns.
MaxChildren == 2

\* The longest list of documents one run exports.
MaxThreads == 2

\* The most <img> elements in one html.
MaxImages == 2

\* ----------------------------------------------------------------- strings

\* The characters of the model in code-point order (str comparison in Python
\* is by code point; only the order matters).
AsciiOrder ==
    << " ", "&", "(", ")", "-", ".", "/", "1", "2", "A", "B", "C", "R",
       "[", "]", "_", "a", "b", "c", "d", "e", "i", "l", "n", "r", "t", "u" >>

Ord(c) == CHOOSE i \in 1..Len(AsciiOrder) : AsciiOrder[i] = c

\* str.lower() on one character.
LowerChar(c) ==
    CASE c = "A" -> "a"
      [] c = "B" -> "b"
      [] c = "C" -> "c"
      [] c = "R" -> "r"
      [] OTHER -> c

\* str.lower()
Lower(s) == [i \in 1..Len(s) |-> LowerChar(s[i])]

\* s < t for two Python strings (lexicographic by code point).
RECURSIVE StrLess(_, _)
StrLess(s, t) ==
    IF t = <<>> THEN FALSE
    ELSE IF s = <<>> THEN TRUE
    ELSE IF s[1] # t[1] THEN Ord(s[1]) < Ord(t[1])
    ELSE StrLess(Tail(s), Tail(t))

IsSpace(c) == c \in {" ", "\t", "\r", "\n"}

RECURSIVE LStrip(_, _)
LStrip(s, drop) ==
    IF s # <<>> /\ s[1] \in drop THEN LStrip(Tail(s), drop) ELSE s

RECURSIVE RStrip(_, _)
RStrip(s, drop) ==
    IF s # <<>> /\ s[Len(s)] \in drop
    THEN RStrip(SubSeq(s, 1, Len(s) - 1), drop)
    ELSE s

\* str.strip()
Strip(s) == RStrip(LStrip(s, {" ", "\t", "\r", "\n"}), {" ", "\t", "\r", "\n"})

\* str.replace(old, new) for single characters.
ReplaceChar(s, old, new) == [i \in 1..Len(s) |-> IF s[i] = old THEN new ELSE s[i]]

\* re.sub(r"[\t\r\n]+", " ", s): every run of tab/CR/LF becomes one space.
RECURSIVE CollapseCtl(_)
CollapseCtl(s) ==
    IF s = <<>> THEN <<>>
    ELSE IF s[1] \in {"\t", "\r", "\n"}
         THEN <<" ">> \o CollapseCtl(LStrip(s, {"\t", "\r", "\n"}))
         ELSE <<s[1]>> \o CollapseCtl(Tail(s))

\* The characters the slug keeps: [A-Za-z0-9._ \-\(\)\[\]].
SlugSafe ==
    { "A", "B", "C", "D", "E", "F", "G", "H", "I", "J", "K", "L", "M", "N", "O", "P",
      "Q", "R", "S", "T", "U", "V", "W", "X", "Y", "Z",
      "a", "b", "c", "d", "e", "f", "g", "h", "i", "j", "k", "l", "m", "n", "o", "p",
      "q", "r", "s", "t", "u", "v", "w", "x", "y", "z",
      "0", "1", "2", "3", "4", "5", "6", "7", "8", "9",
      ".", "_", " ", "-", "(", ")", "[", "]" }

SlugMax == 150

Untitled == << "u", "n", "t", "i", "t", "l", "e", "d" >>

Take(s, n) == SubSeq(s, 1, IF Len(s) < n THEN Len(s) ELSE n)

\* utils/filesystem.py slugify
slugify(name) ==
    LET n1   == ReplaceChar(Strip(name), "/", "-")
        n2   == CollapseCtl(n1)
        safe == Strip(SelectSeq(n2, LAMBDA c : c \in SlugSafe))
        cut  == Take(safe, SlugMax)
    IN  RStrip(IF cut = <<>> THEN Untitled ELSE cut, {" ", "."})

\* "/".join(parts)
RECURSIVE JoinSlash(_)
JoinSlash(parts) ==
    IF parts = <<>> THEN <<>>
    ELSE IF Len(parts) = 1 THEN parts[1]
    ELSE parts[1] \o <<"/">> \o JoinSlash(Tail(parts))

\* -------------------------------------------------------- the remote folder

Root == "R"
Folders == {"R", "A", "B", "C"}

\* None, where the code holds an identity or an object.
None == "None"

T1 == << "t", "1" >>
T2 == << "t", "2" >>
Threads == {T1, T2}

ThreadRef(t) == [thread_id |-> t]
FolderRef(f) == [folder_id |-> f]

\* The children a folder's listing may name, each as often as it stands
\* here: a diamond (C under A and B), a cycle (C lists the root), a
\* self-reference (B lists B), a document under two folders (T1 under R and
\* A) and twice under one (T1 under A).
Menu(f) ==
    CASE f = "R" -> << FolderRef("A"), FolderRef("B"), ThreadRef(T1) >>
      [] f = "A" -> << FolderRef("C"), ThreadRef(T1), ThreadRef(T1) >>
      [] f = "B" -> << FolderRef("C"), FolderRef("B") >>
      [] f = "C" -> << FolderRef("R"), ThreadRef(T2) >>

\* The sequences of k distinct indices of list s.
InjSeqs(s, k) ==
    { p \in [1..k -> 1..Len(s)] : \A i, j \in 1..k : p[i] = p[j] => i = j }

\* The listings of a folder: its possible children in any order, at most n.
Listings(f, n) ==
    UNION { { [i \in 1..k |-> Menu(f)[p[i]]] : p \in InjSeqs(Menu(f), k) } : k \in 0..n }

\* Display names of the folders; the slug strips "&", turns "/" into "-" and
\* drops trailing dots, which leaves nothing of the name of B.
FolderTitle(f) ==
    CASE f = "R" -> << "R" >>
      [] f = "A" -> << "a", "&" >>
      [] f = "B" -> << ".", "." >>
      [] f = "C" -> << "c", "/", "d" >>

\* Titles of the documents: equal up to case, so that the sort key's lower()
\* and its identity tie-break both decide.
ThreadTitle(t) == IF t = T1 THEN << "b" >> ELSE << "B" >>

\* slugify over the display names of the model, computed once.
Names == { FolderTitle(f) : f \in Folders } \cup { ThreadTitle(t) : t \in Threads }

SlugOf == [n \in Names |-> slugify(n)]

\* ------------------------------------------------------------------- state

VARIABLES
    \* the remote service
    children,            \* folder identity -> the children its listing names, in order
    folderOk,            \* folder identity -> "?" (not requested yet), "ok", "fail"
    threadOk,            \* thread identity -> "?", "ok", "fail" (GET /threads/<id>)
    \* list_folder_threads: arguments, locals, position
    recursive,
    maintain_structure,
    wpc,                 \* "idle", "loop" (line 163), "children" (line 185), "done"
    to_visit,
    seen_folders,
    folder_info,
    out,
    fid,                 \* the folder whose children are being read
    ci,                  \* index of the next child of fid
    folderReq,           \* folder identity -> GET /folders/<id> requests of this call (saturating)
    \* two calls on the same remote folder
    reordered,           \* the remote has listed its children in another order
    prevOut,             \* what the call before the reordering returned
    pace                 \* requests and delays of this call: "none", "request" (the
                         \* last one was a request), "sleep", "unpaced" (a request
                         \* has followed a request without a delay in between)

walkVars ==
    << children, folderOk, threadOk, recursive, maintain_structure, wpc, to_visit,
       seen_folders, folder_info, out, fid, ci, folderReq, reordered, prevOut,
       pace >>

VARIABLES
    \* the remote documents
    remote,              \* thread identity -> [tok, html]: updated_usec (0: none) and
                         \* the html of the full content (0: none or empty)
    remoteChanged,       \* the remote changed between the first run and the second
    \* the export root on disk
    manifestFile,        \* manifest.json: AbsentFile or the text save_manifest wrote
    mdFiles,             \* the Markdown files written so far (paths)
    mdTmp,               \* the .tmp files of Markdown files that were not renamed
    frontMatter,         \* Markdown file -> the front matter it holds
    now,                 \* int(time.time()), constant during one run
    \* export_folder_to_markdown: locals and position
    epc,                 \* "idle", "docs" (line 118), "raised" (an exception left the call)
    second,              \* this is (or was) the second run
    threads,             \* what list_folder_threads returned
    ti,                  \* index of the next document
    manifest,            \* the mapping in memory
    loaded,              \* what load_manifest returned at line 101
    doc,                 \* per position: state, fetches, written, prevKey, fault
    exported, skipped, errors,
    prevThreads,         \* the first run: its documents ...
    prevDoc,             \* ... how they ended ...
    prevSaved,           \* ... and whether it reached save_manifest
    prevFile,            \* manifest.json as this run found it
    saved,               \* this run has reached save_manifest
    tmpFile              \* manifest.json.tmp

expVars ==
    << remote, remoteChanged, manifestFile, mdFiles, mdTmp, frontMatter, now, epc,
       second, threads, ti, manifest, loaded, doc, exported, skipped, errors,
       prevThreads, prevDoc, prevSaved, prevFile, saved, tmpFile >>

VARIABLES
    \* process_images on its own
    ipc,                 \* "idle", "call", "returned"
    imgs,                \* the <img> elements of the html: [src, alt]
    img_got,             \* per <img>: get_raw returns its bytes
    img_relative_to,     \* the Markdown file's directory
    img_assets_dir,
    img_result           \* what process_images returned and did

imgVars == << ipc, imgs, img_got, img_relative_to, img_assets_dir, img_result >>

VARIABLES
    \* export_all_folders
    apc,                 \* where the call is
    accessible,          \* the remote: what get_user_folders returns
    folders,             \* the local list
    fi,                  \* index of the next folder
    calls,               \* folder_input of every export_folder_to_markdown call
    raisedAt,            \* positions whose export raised
    titles,              \* the remote: folder identity -> display name
    manifests,           \* the disk: directory -> the identities in its manifest.json
    exports              \* per call: its export root and the documents it exported

allVars == << apc, accessible, folders, fi, calls, raisedAt, titles, manifests, exports >>

VARIABLES
    \* one call of the gateway (get_json, get_raw) or one plain session.get
    gpc,                 \* where the call is
    caller,              \* which function makes the request
    responses,           \* the remote: its answer to the 1st, 2nd, ... request
    attempt,             \* the loop variable i
    requests,            \* number of requests sent
    sleeps,              \* the backoff sleeps so far, in seconds
    lastEvent,           \* the last thing the call did: "request" or "sleep"
    result               \* what the call gave its caller

gwVars == << gpc, caller, responses, attempt, requests, sleeps, lastEvent, result >>

restVars == << allVars, gwVars >>

vars == << walkVars, expVars, imgVars, restVars >>


\* -------------------------------------------------- models/types.py, walker

\* A folder_path of None.
NoPath == << "None" >>

ThreadMeta(id, title, updated_usec, url, folder_path) ==
    [id |-> id, title |-> title, updated_usec |-> updated_usec, url |-> url,
     folder_path |-> folder_path]

Reverse(s) == [i \in 1..Len(s) |-> s[Len(s) + 1 - i]]

\* The loop of _build_folder_path: the slugs from current_folder_id up to the
\* root, leaf first.
RECURSIVE PathParts(_, _, _)
PathParts(f, root_folder_id, info) ==
    IF f = None \/ f = root_folder_id \/ f \notin DOMAIN info
    THEN <<>>
    ELSE <<SlugOf[info[f].name]>> \o PathParts(info[f].parent, root_folder_id, info)

_build_folder_path(current_folder_id, root_folder_id, info) ==
    IF current_folder_id = root_folder_id
    THEN <<>>
    ELSE JoinSlash(Reverse(PathParts(current_folder_id, root_folder_id, info)))

\* x.folder_path or ""
PathOrEmpty(p) == IF p = NoPath THEN <<>> ELSE p

\* The sort key without lower(): titles compared case-sensitively.
SortKeyCaseSensitive(x, structure) ==
    IF structure
    THEN << PathOrEmpty(x.folder_path), x.title, x.id >>
    ELSE << x.title, x.id >>

\* The sort key of list_folder_threads, a tuple of strings.
SortKey(x, structure) ==
    IF structure
    THEN << PathOrEmpty(x.folder_path), Lower(x.title), x.id >>
    ELSE << Lower(x.title), x.id >>

\* a < b for two tuples of strings of the same length.
RECURSIVE TupleLess(_, _)
TupleLess(a, b) ==
    IF a = <<>> THEN FALSE
    ELSE IF a[1] # b[1] THEN StrLess(a[1], b[1])
    ELSE TupleLess(Tail(a), Tail(b))

\* list.sort(key=...) of lines 223-226, a stable sort: an element goes after
\* the elements with a smaller key and the earlier ones with the same key.
SortThreads(list, structure) ==
    LET n == Len(list)
        Before(j, i) ==
            \/ TupleLess(SortKey(list[j], structure), SortKey(list[i], structure))
            \/ SortKey(list[j], structure) = SortKey(list[i], structure) /\ j < i
        Rank(i) == 1 + Cardinality({ j \in 1..n : Before(j, i) })
    IN  [p \in 1..n |-> list[CHOOSE i \in 1..n : Rank(i) = p]]

Inc(n) == IF n < 2 THEN n + 1 ELSE n

\* ------------------------------------------------------------ pathlib.Path

\* A path is its sequence of parts; an absolute path starts with the part "/".
Slash == << "/" >>

\* The parts of the string s between slashes (empty ones included).
RECURSIVE SplitSlash(_)
SplitSlash(s) ==
    IF \A i \in 1..Len(s) : s[i] # "/" THEN << s >>
    ELSE LET k == CHOOSE i \in 1..Len(s) :
                      s[i] = "/" /\ \A j \in 1..(i - 1) : s[j] # "/"
         IN  << SubSeq(s, 1, k - 1) >> \o SplitSlash(SubSeq(s, k + 1, Len(s)))

\* The parts pathlib keeps of a string: empty parts and "." are dropped.
PathParse(s) == SelectSeq(SplitSlash(s), LAMBDA p : p # <<>> /\ p # << "." >>)

\* base / s: an absolute s replaces base.
PathDiv(base, s) ==
    IF s # <<>> /\ s[1] = "/" THEN << Slash >> \o PathParse(s) ELSE base \o PathParse(s)

IsUnder(path, base) ==
    Len(base) <= Len(path) /\ SubSeq(path, 1, Len(base)) = base

\* PurePath.relative_to: the parts after base; ValueError otherwise.
ValueError == << << "ValueError" >> >>

relative_to(path, base) ==
    IF IsUnder(path, base) THEN SubSeq(path, Len(base) + 1, Len(path)) ELSE ValueError

Parent(path) == SubSeq(path, 1, Len(path) - 1)

\* out_dir / slugify(folder_name): the export root of the folder.
folder_dir == << Slash, << "o" >>, SlugOf[FolderTitle(Root)] >>

assets_root == folder_dir \o << << "_", "a", "s", "s", "e", "t", "s" >> >>

\* f"{safe_title} - {t.id}.md"
MdName(t) == SlugOf[t.title] \o << " ", "-", " " >> \o t.id \o << ".", "m", "d" >>

\* "if maintain_structure and t.folder_path": None and "" are falsy.
Nested(t, structure) == structure /\ t.folder_path # NoPath /\ t.folder_path # <<>>

\* Lines 156-164: where the document and its assets go.
doc_dir(t, structure) ==
    IF Nested(t, structure) THEN PathDiv(folder_dir, t.folder_path) ELSE folder_dir

md_path(t, structure) == doc_dir(t, structure) \o << MdName(t) >>

doc_assets(t) == assets_root \o << t.id >>

\* '../' * depth
RECURSIVE UpDirs(_)
UpDirs(depth) == IF depth = 0 THEN <<>> ELSE << ".", ".", "/" >> \o UpDirs(depth - 1)

\* Lines 180-187: relative_assets, the front matter's assets_dir; depth is
\* len(t.folder_path.split('/')).
relative_assets(t, structure) ==
    IF Nested(t, structure)
    THEN PathDiv(PathDiv(PathParse(UpDirs(Len(SplitSlash(t.folder_path)))),
                         << "_", "a", "s", "s", "e", "t", "s" >>), t.id)
    ELSE PathDiv(PathParse(<< "_", "a", "s", "s", "e", "t", "s" >>), t.id)

\* Lines 190-199: the front matter, as far as it names the document and
\* its assets.
FrontMatter(t, structure) ==
    [thread_id |-> t.id, assets_dir |-> relative_assets(t, structure)]

\* ------------------------------------------------------ keys and manifest

Digits == << "0", "1", "2", "3", "4", "5", "6", "7", "8", "9" >>

\* str(n) of a natural number.
RECURSIVE str(_)
str(n) == IF n < 10 THEN << Digits[n + 1] >> ELSE str(n \div 10) \o << Digits[(n % 10) + 1] >>

\* sha256_bytes(html.encode("utf-8")): a digest per content, taken to be free
\* of collisions; its 64 hexadecimal digits are never the decimal form of a
\* version token.
sha256_bytes(html) == << "#" >> \o str(html)

\* The keys of a mapping in the order sort_keys=True writes them.
RECURSIVE SortedKeys(_)
SortedKeys(S) ==
    IF S = {} THEN <<>>
    ELSE LET k == CHOOSE x \in S : \A o \in S \ {x} : StrLess(x, o)
         IN  << k >> \o SortedKeys(S \ {k})

\* json.dumps(data, indent=2, sort_keys=True): the members in key order.
dumps(data) ==
    LET ks == SortedKeys(DOMAIN data) IN [i \in 1..Len(ks) |-> << ks[i], data[ks[i]] >>]

\* json.loads of such a text: a mapping; of a repeated key the last member wins.
loads(text) ==
    [k \in { text[i][1] : i \in 1..Len(text) } |->
        text[CHOOSE i \in 1..Len(text) :
                /\ text[i][1] = k
                /\ \A j \in (i + 1)..Len(text) : text[j][1] # k][2]]

AbsentFile == [kind |-> "absent"]

\* A file whose text json.loads rejects; every proper prefix of a
\* serialisation is such a text.
CorruptFile == [kind |-> "corrupt"]

\* A file with the text "[]": valid JSON, not an object.
ArrayFile == [kind |-> "array"]

EmptyDict == << >>

\* The list [] of Python: kept apart from every mapping by a key that no
\* identity is.
EmptyList == [k \in { << "[", "]" >> } |-> [updated_key |-> << "None" >>]]

\* isinstance(m, dict)
IsDict(m) == << "[", "]" >> \notin DOMAIN m

\* json.dumps(data, indent=2, sort_keys=True), as the content of a file.
Serialised(data) ==
    IF IsDict(data) THEN [kind |-> "json", text |-> dumps(data)] ELSE ArrayFile

\* save_manifest: the file is replaced by the serialisation of data.
save_manifest(data) == Serialised(data)

\* The manifest of the run before is not read.
load_manifest_absent(file) == EmptyDict

\* load_manifest: {} when the file is absent or cannot be parsed, else
\* whatever json.loads returns.
load_manifest(file) ==
    IF file.kind = "json" THEN loads(file.text)
    ELSE IF file.kind = "array" THEN EmptyList
    ELSE EmptyDict

\* None, where a string is expected
NoKey == << "None" >>

\* manifest.get(t.id, {}).get("updated_key")
StoredKey(m, id) == IF id \in DOMAIN m THEN m[id].updated_key ELSE NoKey

\* ------------------------------------------------------------ process_images

StartsWith(s, prefix) == Len(prefix) <= Len(s) /\ SubSeq(s, 1, Len(prefix)) = prefix

Contains(s, c) == \E i \in 1..Len(s) : s[i] = c

\* s.split(c)[0]
BeforeFirst(s, c) ==
    IF Contains(s, c)
    THEN SubSeq(s, 1, (CHOOSE i \in 1..Len(s) :
                          s[i] = c /\ \A j \in 1..(i - 1) : s[j] # c) - 1)
    ELSE s

\* s.split(c, 1)[1], for an s that contains c
AfterFirst(s, c) ==
    SubSeq(s, (CHOOSE i \in 1..Len(s) : s[i] = c /\ \A j \in 1..(i - 1) : s[j] # c) + 1,
           Len(s))

\* os.path.basename
basename(s) ==
    IF Contains(s, "/")
    THEN SubSeq(s, (CHOOSE i \in 1..Len(s) :
                       s[i] = "/" /\ \A j \in (i + 1)..Len(s) : s[j] # "/") + 1, Len(s))
    ELSE s

ImageWord == << "i", "m", "a", "g", "e" >>

filename_from_url(url) ==
    LET b == basename(BeforeFirst(BeforeFirst(url, "?"), "#"))
    IN  slugify(IF b = <<>> THEN ImageWord ELSE b)

\* "data:"; the media type and the payload of a data URL are one element each.
DataPrefix == << "d", "a", "t", "a", ":" >>

Png == "image/png"

Jpeg == "image/jpeg"

\* Payloads base64.b64decode accepts.
B64Valid(b64) == b64 \in { << "QUJD" >>, << "REVG" >> }

Embedded(ext) == << "e", "m", "b", "e", "d", "d", "e", "d", "." >> \o ext

\* The <img> element has no alt attribute.
NoAlt == << "None" >>

\* A comment that names neither the alt text nor the source.
PlaceholderBare(img, src) == [kind |-> "comment", alt |-> ImageWord, src |-> <<>>]

\* Lines 81-82: the comment that replaces an <img> whose bytes were not
\* obtained; img.get("alt", "image") and the stripped src.
Placeholder(img, src) ==
    [kind |-> "comment",
     alt |-> IF img.alt = NoAlt THEN ImageWord ELSE img.alt,
     src |-> src]

\* safe_write_atomic(dest, data): dest holds data from then on, whatever it
\* held; the data of a reference is named by its src.
WriteFile(bytes, dest, data) ==
    [p \in DOMAIN bytes \cup {dest} |-> IF p = dest THEN data ELSE bytes[p]]

\* The handling of one <img> (lines 46-84).  acc: what the call has done so
\* far; got: get_raw returns the bytes of this src (not for a data URL, for
\* which requests has no connection adapter).
ImgStep(acc, img, got, assets_dir, rel_to) ==
    LET src == Strip(img.src)
        isData == StartsWith(src, DataPrefix)
        header == BeforeFirst(src, ",")
        ext == IF Contains(header, Png) THEN << "p", "n", "g" >> ELSE << "j", "p", "g" >>
        ddest == PathDiv(assets_dir, filename_from_url(Embedded(ext)))
        decoded == isData /\ Contains(src, ",") /\ B64Valid(AfterFirst(src, ","))
        dataDone == decoded /\ IsUnder(ddest, rel_to)
        afterData == IF decoded
                     THEN [acc EXCEPT !.files = @ \cup {ddest},
                                      !.bytes = WriteFile(@, ddest, src)]
                     ELSE acc
        rdest == PathDiv(assets_dir, filename_from_url(src))
        fetched == got /\ ~isData
        requested == [afterData EXCEPT !.requests = Append(@, src)]
        written == [requested EXCEPT !.files = @ \cup {rdest},
                                     !.bytes = WriteFile(@, rdest, src)]
        placeholder == Placeholder(img, src)
    IN
    IF src = <<>> THEN [acc EXCEPT !.soup = Append(@, [kind |-> "img", src |-> img.src])]
    ELSE IF dataDone
    THEN [afterData EXCEPT !.soup = Append(@, [kind |-> "img",
                                               src |-> relative_to(ddest, rel_to)]),
                           !.downloaded = Append(@, ddest)]
    ELSE IF fetched /\ IsUnder(rdest, rel_to)
    THEN [written EXCEPT !.soup = Append(@, [kind |-> "img",
                                             src |-> relative_to(rdest, rel_to)]),
                         !.downloaded = Append(@, rdest)]
    ELSE IF fetched
    THEN [written EXCEPT !.soup = Append(@, placeholder)]
    ELSE [requested EXCEPT !.soup = Append(@, placeholder)]

\* process_images(session, html, assets_dir, relative_to): the elements that
\* replace the <img> elements, the paths downloaded, the files written, what
\* each file holds and the URLs requested from the gateway; got[i] is the
\* outcome of get_raw for the i-th <img>.
RECURSIVE process_images(_, _, _, _)
process_images(list, got, assets_dir, rel_to) ==
    IF list = <<>>
    THEN [soup |-> <<>>, downloaded |-> <<>>, files |-> {}, bytes |-> << >>,
          requests |-> <<>>]
    ELSE ImgStep(process_images(SubSeq(list, 1, Len(list) - 1),
                                SubSeq(got, 1, Len(got) - 1), assets_dir, rel_to),
                 list[Len(list)], got[Len(list)], assets_dir, rel_to)

\* ------------------------------------------------ list_folder_threads steps

\* A request is sent: the second of two with no delay in between is unpaced.
Requested(p) == IF p \in {"request", "unpaced"} THEN "unpaced" ELSE "request"

\* short_sleep() returns.
Slept(p) == IF p = "unpaced" THEN "unpaced" ELSE "sleep"

\* No visited-set: every queued folder is retrieved again.
NeverSeen(f) == FALSE

\* Line 165: fid in seen_folders
AlreadySeen(f) == f \in seen_folders

\* Lines 155-161: the call starts.
WalkStart ==
    /\ wpc = "idle"
    /\ to_visit' = << <<Root, None>> >>
    /\ seen_folders' = {}
    /\ folder_info' = << >>
    /\ out' = <<>>
    /\ folderReq' = [f \in Folders |-> 0]
    /\ wpc' = "loop"
    /\ pace' = "none"
    /\ UNCHANGED << expVars, imgVars, restVars >>
    /\ UNCHANGED << children, folderOk, threadOk, recursive, maintain_structure,
                    fid, ci, reordered, prevOut >>

\* A folder that is met again gets the parent it is met under.
WalkPopSeenReparent ==
    /\ wpc = "loop"
    /\ to_visit # <<>>
    /\ AlreadySeen(to_visit[1][1])
    /\ to_visit' = Tail(to_visit)
    /\ folder_info' =
          [g \in DOMAIN folder_info |->
              IF g = to_visit[1][1]
              THEN [folder_info[g] EXCEPT !.parent = to_visit[1][2]]
              ELSE folder_info[g]]
    /\ UNCHANGED << expVars, imgVars, restVars >>
    /\ UNCHANGED << children, folderOk, threadOk, recursive, maintain_structure, wpc,
                    seen_folders, out, fid, ci, folderReq, reordered, prevOut, pace >>

\* Lines 164-166: a folder already seen is dropped.
WalkPopSeen ==
    /\ wpc = "loop"
    /\ to_visit # <<>>
    /\ AlreadySeen(to_visit[1][1])
    /\ to_visit' = Tail(to_visit)
    /\ UNCHANGED << expVars, imgVars, restVars >>
    /\ UNCHANGED << children, folderOk, threadOk, recursive, maintain_structure, wpc,
                    seen_folders, folder_info, out, fid, ci, folderReq, reordered,
                    prevOut, pace >>

\* Lines 164-175: the folder's retrieval fails; it is skipped.
WalkFolderFail ==
    /\ wpc = "loop"
    /\ to_visit # <<>>
    /\ LET f == to_visit[1][1] IN
        /\ ~AlreadySeen(f)
        /\ folderOk[f] \in {"?", "fail"}
        /\ folderOk' = [folderOk EXCEPT ![f] = "fail"]
        /\ seen_folders' = seen_folders \cup {f}
        /\ folderReq' = [folderReq EXCEPT ![f] = Inc(@)]
    /\ to_visit' = Tail(to_visit)
    /\ pace' = Requested(pace)
    /\ UNCHANGED << expVars, imgVars, restVars >>
    /\ UNCHANGED << children, threadOk, recursive, maintain_structure, wpc,
                    folder_info, out, fid, ci, reordered, prevOut >>

\* Lines 164-183: the folder is retrieved and recorded with its parent.
WalkFolderOk ==
    /\ wpc = "loop"
    /\ to_visit # <<>>
    /\ LET f == to_visit[1][1]
           parent_fid == to_visit[1][2]
       IN
        /\ ~AlreadySeen(f)
        /\ folderOk[f] \in {"?", "ok"}
        /\ folderOk' = [folderOk EXCEPT ![f] = "ok"]
        /\ seen_folders' = seen_folders \cup {f}
        /\ folderReq' = [folderReq EXCEPT ![f] = Inc(@)]
        /\ folder_info' =
              [g \in DOMAIN folder_info \cup {f} |->
                  IF g = f THEN [name |-> FolderTitle(f), parent |-> parent_fid]
                  ELSE folder_info[g]]
        /\ fid' = f
    /\ to_visit' = Tail(to_visit)
    /\ ci' = 1
    /\ wpc' = "children"
    /\ pace' = Requested(pace)
    /\ UNCHANGED << expVars, imgVars, restVars >>
    /\ UNCHANGED << children, threadOk, recursive, maintain_structure, out,
                    reordered, prevOut >>

\* Lines 187-212: a document child whose retrieval succeeds is appended.
WalkThreadOk ==
    /\ wpc = "children"
    /\ ci <= Len(children[fid])
    /\ "thread_id" \in DOMAIN children[fid][ci]
    /\ LET tid == children[fid][ci].thread_id
           folder_path == IF maintain_structure
                          THEN _build_folder_path(fid, Root, folder_info)
                          ELSE NoPath
       IN
        /\ threadOk[tid] \in {"?", "ok"}
        /\ threadOk' = [threadOk EXCEPT ![tid] = "ok"]
        /\ out' = Append(out, ThreadMeta(tid, ThreadTitle(tid), 0, None, folder_path))
    /\ ci' = ci + 1
    /\ pace' = Slept(Requested(pace))
    /\ UNCHANGED << expVars, imgVars, restVars >>
    /\ UNCHANGED << children, folderOk, recursive, maintain_structure, wpc, to_visit,
                    seen_folders, folder_info, fid, folderReq, reordered, prevOut >>

\* The failure of one document ends the reading of its folder's children.
WalkThreadFailEndsFolder ==
    /\ wpc = "children"
    /\ ci <= Len(children[fid])
    /\ "thread_id" \in DOMAIN children[fid][ci]
    /\ LET tid == children[fid][ci].thread_id IN
        /\ threadOk[tid] \in {"?", "fail"}
        /\ threadOk' = [threadOk EXCEPT ![tid] = "fail"]
    /\ ci' = Len(children[fid]) + 1
    /\ pace' = Requested(pace)
    /\ UNCHANGED << expVars, imgVars, restVars >>
    /\ UNCHANGED << children, folderOk, recursive, maintain_structure, wpc, to_visit,
                    seen_folders, folder_info, out, fid, folderReq, reordered,
                    prevOut >>

\* Lines 187-214: a document child whose retrieval fails is skipped.
WalkThreadFail ==
    /\ wpc = "children"
    /\ ci <= Len(children[fid])
    /\ "thread_id" \in DOMAIN children[fid][ci]
    /\ LET tid == children[fid][ci].thread_id IN
        /\ threadOk[tid] \in {"?", "fail"}
        /\ threadOk' = [threadOk EXCEPT ![tid] = "fail"]
    /\ ci' = ci + 1
    /\ pace' = Requested(pace)
    /\ UNCHANGED << expVars, imgVars, restVars >>
    /\ UNCHANGED << children, folderOk, recursive, maintain_structure, wpc, to_visit,
                    seen_folders, folder_info, out, fid, folderReq, reordered,
                    prevOut >>

\* Lines 216-218: a subfolder child is queued with this folder as its parent
\* (only when recursive).
WalkSubfolder ==
    /\ wpc = "children"
    /\ ci <= Len(children[fid])
    /\ "thread_id" \notin DOMAIN children[fid][ci]
    /\ "folder_id" \in DOMAIN children[fid][ci]
    /\ to_visit' = IF recursive
                   THEN Append(to_visit, <<children[fid][ci].folder_id, fid>>)
                   ELSE to_visit
    /\ ci' = ci + 1
    /\ UNCHANGED << expVars, imgVars, restVars >>
    /\ UNCHANGED << children, folderOk, threadOk, recursive, maintain_structure, wpc,
                    seen_folders, folder_info, out, fid, folderReq, reordered,
                    prevOut, pace >>

\* Line 220: the children are done; short_sleep() and back to the queue.
WalkEndFolder ==
    /\ wpc = "children"
    /\ ci > Len(children[fid])
    /\ wpc' = "loop"
    /\ pace' = Slept(pace)
    /\ UNCHANGED << expVars, imgVars, restVars >>
    /\ UNCHANGED << children, folderOk, threadOk, recursive, maintain_structure,
                    to_visit, seen_folders, folder_info, out, fid, ci, folderReq,
                    reordered, prevOut >>

\* Lines 222-228: the queue is empty; sort and return.
WalkReturn ==
    /\ wpc = "loop"
    /\ to_visit = <<>>
    /\ out' = SortThreads(out, maintain_structure)
    /\ wpc' = "done"
    /\ UNCHANGED << expVars, imgVars, restVars >>
    /\ UNCHANGED << children, folderOk, threadOk, recursive, maintain_structure,
                    to_visit, seen_folders, folder_info, fid, ci, folderReq,
                    reordered, prevOut, pace >>

Listing(cR, cA, cB, cC) ==
    [f \in Folders |-> CASE f = "R" -> cR [] f = "A" -> cA [] f = "B" -> cB [] f = "C" -> cC]

\* The orders in which the elements of list s can be listed.
Orderings(s) == { [i \in 1..Len(s) |-> s[p[i]]] : p \in InjSeqs(s, Len(s)) }

\* The remote lists the same children of a folder in another order, and the
\* walker is called again.
RemoteReorder ==
    /\ wpc = "done"
    /\ ~reordered
    /\ \E f \in Folders : \E c \in Orderings(children[f]) \ { children[f] } :
          children' = [children EXCEPT ![f] = c]
    /\ reordered' = TRUE
    /\ prevOut' = out
    /\ wpc' = "idle"
    /\ UNCHANGED << expVars, imgVars, restVars >>
    /\ UNCHANGED << folderOk, threadOk, recursive, maintain_structure, to_visit,
                    seen_folders, folder_info, out, fid, ci, folderReq, pace >>

\* The exporter before its first run.
ExpRunFresh ==
    /\ remoteChanged = FALSE
    /\ mdFiles = {}
    /\ mdTmp = {}
    /\ frontMatter = << >>
    /\ now = 0
    /\ epc = "idle"
    /\ second = FALSE
    /\ threads = <<>>
    /\ ti = 1
    /\ manifest = EmptyDict
    /\ loaded = EmptyDict
    /\ doc = <<>>
    /\ exported = 0
    /\ skipped = 0
    /\ errors = 0
    /\ prevThreads = <<>>
    /\ prevDoc = <<>>
    /\ prevSaved = FALSE
    /\ prevFile = AbsentFile
    /\ saved = FALSE
    /\ tmpFile = AbsentFile

\* No export has run: there is no manifest.json.
ExpFresh ==
    /\ manifestFile = AbsentFile
    /\ ExpRunFresh

ExpAtRest ==
    /\ remote = [t \in Threads |-> [tok |-> 0, html |-> 0]]
    /\ ExpFresh

ImgAtRest ==
    /\ ipc = "idle"
    /\ imgs = <<>>
    /\ img_got = <<>>
    /\ img_relative_to = <<>>
    /\ img_assets_dir = <<>>
    /\ img_result = process_images(<<>>, <<>>, <<>>, <<>>)

AllAtRest ==
    /\ apc = "idle"
    /\ accessible = <<>>
    /\ folders = <<>>
    /\ fi = 1
    /\ calls = <<>>
    /\ raisedAt = {}
    /\ titles = [f \in Folders |-> FolderTitle(f)]
    /\ manifests = << >>
    /\ exports = <<>>

GwAtRest ==
    /\ gpc = "idle"
    /\ caller = "none"
    /\ responses = <<>>
    /\ attempt = 0
    /\ requests = 0
    /\ sleeps = <<>>
    /\ lastEvent = "none"
    /\ result = "none"

RestAtRest == AllAtRest /\ GwAtRest

\* list_folder_threads is about to be called, with or without recursion and
\* path tracking.
WalkFresh ==
    /\ folderOk = [f \in Folders |-> "?"]
    /\ threadOk = [t \in Threads |-> "?"]
    /\ recursive \in BOOLEAN
    /\ maintain_structure \in BOOLEAN
    /\ wpc = "idle"
    /\ to_visit = <<>>
    /\ seen_folders = {}
    /\ folder_info = << >>
    /\ out = <<>>
    /\ fid = Root
    /\ ci = 1
    /\ folderReq = [f \in Folders |-> 0]
    /\ reordered = FALSE
    /\ prevOut = <<>>
    /\ pace = "none"
    /\ ExpAtRest
    /\ ImgAtRest

WalkInit ==
    /\ RestAtRest
    /\ \E cR \in Listings("R", MaxChildren), cA \in Listings("A", MaxChildren),
          cB \in Listings("B", MaxChildren), cC \in Listings("C", MaxChildren) :
          children = Listing(cR, cA, cB, cC)
    /\ WalkFresh

\* A second remote: folder B, whose name has an empty slug, holds a
\* document and is listed by the root and by A; C is listed by A and B and
\* lists the root.
PathMenu(f) ==
    CASE f = "R" -> << FolderRef("A"), FolderRef("B"), ThreadRef(T1) >>
      [] f = "A" -> << FolderRef("B"), FolderRef("C") >>
      [] f = "B" -> << FolderRef("C"), ThreadRef(T2) >>
      [] f = "C" -> << FolderRef("R"), ThreadRef(T2) >>

\* The listings of at most n entries of a menu, in any order.
ListingsOf(menu, n) ==
    UNION { { [i \in 1..k |-> menu[p[i]]] : p \in InjSeqs(menu, k) } : k \in 0..n }

WalkPathsInit ==
    /\ RestAtRest
    /\ \E cR \in ListingsOf(PathMenu("R"), MaxChildren),
          cA \in ListingsOf(PathMenu("A"), MaxChildren),
          cB \in ListingsOf(PathMenu("B"), MaxChildren),
          cC \in ListingsOf(PathMenu("C"), MaxChildren) :
          children = Listing(cR, cA, cB, cC)
    /\ WalkFresh

WalkPathsNext ==
    \/ WalkStart
    \/ WalkPopSeen
    \/ WalkFolderFail
    \/ WalkFolderOk
    \/ WalkThreadOk
    \/ WalkThreadFail
    \/ WalkSubfolder
    \/ WalkEndFolder
    \/ WalkReturn

SpecWalkPaths == WalkPathsInit /\ [][WalkPathsNext]_vars

WalkNext ==
    \/ WalkStart
    \/ WalkPopSeen
    \/ WalkFolderFail
    \/ WalkFolderOk
    \/ WalkThreadOk
    \/ WalkThreadFail
    \/ WalkSubfolder
    \/ WalkEndFolder
    \/ WalkReturn
    \/ RemoteReorder

SpecWalk == WalkInit /\ [][WalkNext]_vars

\* ------------------------------------------- export_folder_to_markdown steps

\* The <img> elements of the html of a document: one remote image in the
\* first document, none in the second.
RemoteImage == [src |-> << " ", "h", "/", "i", ".", "p", "n", "g" >>, alt |-> << "x" >>]

DataImage == [src |-> DataPrefix \o << Png, ",", "QUJD" >>, alt |-> << "z" >>]

HtmlImages(id, html) == IF id = T1 THEN << RemoteImage >> ELSE <<>>

\* The folder paths the walker can give a document: the first one lies in the
\* root and in folder "a", the second one in "a/c-d" or in a folder that is
\* named like the Markdown file of the first.
ExportPlaces(id) ==
    IF id = T1
    THEN { <<>>, SlugOf[FolderTitle("A")] }
    ELSE { JoinSlash(<< SlugOf[FolderTitle("A")], SlugOf[FolderTitle("C")] >>),
           MdName(ThreadMeta(T1, ThreadTitle(T1), 0, None, <<>>)) }

Descriptors(structure, rem) ==
    UNION { { ThreadMeta(t, ThreadTitle(t), rem[t].tok, None, p) :
                p \in IF structure THEN ExportPlaces(t) ELSE { NoPath } } :
            t \in Threads }

\* What list_folder_threads can return: sorted lists of descriptors, the same
\* document more than once included.
ThreadLists(structure, rem) ==
    { SortThreads(l, structure) :
        l \in UNION { [1..n -> Descriptors(structure, rem)] : n \in 0..MaxThreads } }

\* The elements of l that mask keeps.
RECURSIVE Pick(_, _)
Pick(l, mask) ==
    IF l = <<>> THEN <<>>
    ELSE (IF mask[1] THEN << l[1] >> ELSE <<>>) \o Pick(Tail(l), Tail(mask))

\* What the walk of the second run can return: the documents of the first
\* run that are still listed and retrieved (all of them, or all but one), with
\* the tokens they have now.
Relisted(l, rem) ==
    { [i \in 1..Len(k) |-> [k[i] EXCEPT !.updated_usec = rem[k[i].id].tok]] :
        k \in { Pick(l, mask) :
                  mask \in { m \in [1..Len(l) -> BOOLEAN] :
                                Cardinality({ i \in 1..Len(l) : ~m[i] }) <= 1 } } }

PendingDoc ==
    [state |-> "PENDING", fetches |-> 0, written |-> FALSE, prevKey |-> NoKey,
     fault |-> "none"]

\* Lines 89-116 up to the walk: the manifest is loaded; the run before
\* becomes the previous run.
Begin ==
    /\ \/ epc = "idle"
       \/ epc \in {"done", "raised", "crashed"} /\ ~second
    /\ second' = (epc # "idle")
    /\ now' = now + 1
    /\ loaded' = load_manifest(manifestFile)
    /\ manifest' = load_manifest(manifestFile)
    /\ prevThreads' = threads
    /\ prevDoc' = doc
    /\ prevSaved' = saved
    /\ prevFile' = manifestFile
    /\ saved' = FALSE
    /\ ti' = 1
    /\ exported' = 0
    /\ skipped' = 0
    /\ errors' = 0
    /\ UNCHANGED << remote, remoteChanged, manifestFile, mdFiles, mdTmp, frontMatter,
                    tmpFile >>

\* Lines 89-116: the walk returns documents.
ExpStart ==
    /\ Begin
    /\ \E l \in IF epc = "idle"
               THEN ThreadLists(maintain_structure, remote)
               ELSE Relisted(threads, remote) :
          /\ l # <<>>
          /\ threads' = l
          /\ doc' = [i \in 1..Len(l) |-> PendingDoc]
    /\ epc' = "docs"
    /\ UNCHANGED << walkVars, imgVars, restVars >>

\* Lines 89-110: "No documents found."; the call returns before any save.
ExpStartEmpty ==
    /\ Begin
    /\ threads' = <<>>
    /\ doc' = <<>>
    /\ epc' = "done"
    /\ UNCHANGED << walkVars, imgVars, restVars >>

\* The document the loop of line 118 is at.
AtDoc == epc = "docs" /\ ti <= Len(threads)

\* The test of lines 120-123 left out: every document is fetched.
TokenNeverMatches(t, m) == FALSE

\* Lines 120-123: the descriptor's token is the stored change key.
TokenMatch(t, m) ==
    /\ IsDict(m)
    /\ t.updated_usec # 0
    /\ StoredKey(m, t.id) = str(t.updated_usec)

\* Lines 120-129: the loop body reaches fetch_thread; manifest.get of line
\* 122 is called for a document with a token only.
Fetches(t, m) == ~TokenMatch(t, m) /\ (t.updated_usec = 0 \/ IsDict(m))

\* The content hash is the key of every document.
HashKey(t, html) == sha256_bytes(html)

\* Lines 142-145: the effective change key of a document with content.
EffectiveKey(t, html) ==
    IF t.updated_usec # 0 THEN str(t.updated_usec) ELSE sha256_bytes(html)

\* Lines 129-151 passed: the content is there and its key is not the stored one.
Changed(t, m) ==
    /\ Fetches(t, m)
    /\ IsDict(m)
    /\ remote[t.id].html # 0
    /\ t.updated_usec = 0 => StoredKey(m, t.id) # sha256_bytes(remote[t.id].html)

\* mkdir(parents=True, exist_ok=True) raises FileExistsError: the document
\* directory is an existing Markdown file.
MkdirRaises(t) == Nested(t, maintain_structure) /\ doc_dir(t, maintain_structure) \in mdFiles

\* The document at ti ends; the loop goes on.
Ends(state, fetched, written, fault) ==
    /\ doc' = [doc EXCEPT ![ti] =
                  [state |-> state,
                   fetches |-> IF fetched THEN 1 ELSE 0,
                   written |-> written,
                   prevKey |-> StoredKey(manifest, threads[ti].id),
                   fault |-> fault]]
    /\ ti' = ti + 1
    /\ UNCHANGED << remote, remoteChanged, manifestFile, now, epc, second, threads,
                    loaded, prevThreads, prevDoc, prevSaved, prevFile, saved, tmpFile >>
    /\ UNCHANGED << walkVars, imgVars, restVars >>

\* Lines 120-126: skipped on the token alone.
SkipUnchangedToken ==
    /\ AtDoc
    /\ TokenMatch(threads[ti], manifest)
    /\ Ends("SKIPPED_UNCHANGED", FALSE, FALSE, "none")
    /\ skipped' = skipped + 1
    /\ UNCHANGED << manifest, mdFiles, mdTmp, frontMatter, exported, errors >>

\* Lines 129-133: fetch_thread returns None.
FetchFails ==
    /\ AtDoc
    /\ Fetches(threads[ti], manifest)
    /\ Ends("SKIPPED_NO_CONTENT", TRUE, FALSE, "fetch")
    /\ skipped' = skipped + 1
    /\ UNCHANGED << manifest, mdFiles, mdTmp, frontMatter, exported, errors >>

\* Lines 129-139: the content is fetched; it has no html.
NoContent ==
    /\ AtDoc
    /\ Fetches(threads[ti], manifest)
    /\ remote[threads[ti].id].html = 0
    /\ Ends("SKIPPED_NO_CONTENT", TRUE, FALSE, "none")
    /\ skipped' = skipped + 1
    /\ UNCHANGED << manifest, mdFiles, mdTmp, frontMatter, exported, errors >>

\* Lines 129-151: no token; the hash of the fetched html is the stored key.
SkipUnchangedHash ==
    /\ AtDoc
    /\ LET t == threads[ti] IN
        /\ Fetches(t, manifest)
        /\ IsDict(manifest)
        /\ remote[t.id].html # 0
        /\ t.updated_usec = 0
        /\ StoredKey(manifest, t.id) = sha256_bytes(remote[t.id].html)
    /\ Ends("SKIPPED_UNCHANGED", TRUE, FALSE, "none")
    /\ skipped' = skipped + 1
    /\ UNCHANGED << manifest, mdFiles, mdTmp, frontMatter, exported, errors >>

\* Lines 153-166 are not inside the try of line 168: an exception of
\* ensure_dir leaves export_folder_to_markdown.
PathsRaise ==
    /\ AtDoc
    /\ Changed(threads[ti], manifest)
    /\ doc' = [doc EXCEPT ![ti] =
                  [PendingDoc EXCEPT !.fetches = 1,
                                     !.prevKey = StoredKey(manifest, threads[ti].id),
                                     !.fault = "paths"]]
    /\ epc' = "raised"
    /\ UNCHANGED << remote, remoteChanged, manifestFile, mdFiles, mdTmp, frontMatter,
                    now, second, threads, ti, manifest, loaded, exported, skipped,
                    errors, prevThreads, prevDoc, prevSaved, prevFile, saved,
                    tmpFile >>
    /\ UNCHANGED << walkVars, imgVars, restVars >>

\* A failed document is not counted.
ExportFailsUncounted ==
    /\ AtDoc
    /\ Changed(threads[ti], manifest)
    /\ ~MkdirRaises(threads[ti])
    /\ Ends("FAILED", TRUE, FALSE, "write")
    /\ UNCHANGED << manifest, mdFiles, mdTmp, frontMatter, exported, skipped, errors >>

\* The entry of a document is recorded before its file is written.
ExportFailsRecorded ==
    /\ AtDoc
    /\ Changed(threads[ti], manifest)
    /\ ~MkdirRaises(threads[ti])
    /\ Ends("FAILED", TRUE, FALSE, "write")
    /\ errors' = errors + 1
    /\ manifest' = [k \in DOMAIN manifest \cup {threads[ti].id} |->
                       [updated_key |->
                           EffectiveKey(threads[ti], remote[threads[ti].id].html)]]
    /\ UNCHANGED << mdFiles, mdTmp, frontMatter, exported, skipped >>

\* Lines 168-204 raise (conversion, front matter, the write of the file);
\* lines 219-221.
ExportFails ==
    /\ AtDoc
    /\ Changed(threads[ti], manifest)
    /\ ~MkdirRaises(threads[ti])
    /\ Ends("FAILED", TRUE, FALSE, "write")
    /\ errors' = errors + 1
    /\ UNCHANGED << manifest, mdFiles, mdTmp, frontMatter, exported, skipped >>

\* The manifest entry of lines 206-214.
ManifestEntry(t, updated_key, downloaded) ==
    LET e == [title |-> t.title,
              filename |-> relative_to(md_path(t, maintain_structure), folder_dir),
              updated_key |-> updated_key,
              last_exported |-> now,
              images |-> [i \in 1..Len(downloaded) |->
                             relative_to(downloaded[i], folder_dir)]]
    IN  IF t.folder_path # NoPath /\ t.folder_path # <<>>
        THEN [x \in DOMAIN e \cup {"folder_path"} |->
                 IF x = "folder_path" THEN t.folder_path ELSE e[x]]
        ELSE e

\* d[key] = value
SetItem(d, key, value) ==
    [k \in DOMAIN d \cup {key} |-> IF k = key THEN value ELSE d[k]]

\* Lines 153-218: the document is converted and written, its entry recorded.
ExportOk ==
    /\ AtDoc
    /\ LET t == threads[ti]
           html == remote[t.id].html
           images == HtmlImages(t.id, html)
           mp == md_path(t, maintain_structure)
       IN
        /\ Changed(t, manifest)
        /\ ~MkdirRaises(t)
        /\ IsUnder(mp, folder_dir)
        /\ \E got \in [1..Len(images) -> BOOLEAN] :
              LET r == process_images(images, got, doc_assets(t), Parent(mp)) IN
              manifest' = SetItem(manifest, t.id,
                                  ManifestEntry(t, EffectiveKey(t, html), r.downloaded))
        /\ mdFiles' = mdFiles \cup {mp}
        /\ frontMatter' = SetItem(frontMatter, mp, FrontMatter(t, maintain_structure))
    /\ Ends("EXPORTED", TRUE, TRUE, "none")
    /\ exported' = exported + 1
    /\ UNCHANGED << mdTmp, skipped, errors >>

\* Line 223: the loop is over; the manifest is saved.
ExpSave ==
    /\ epc = "docs"
    /\ ti > Len(threads)
    /\ manifestFile' = save_manifest(manifest)
    /\ tmpFile' = AbsentFile
    /\ saved' = TRUE
    /\ epc' = "done"
    /\ UNCHANGED << remote, remoteChanged, mdFiles, mdTmp, frontMatter, now, second,
                    threads, ti, manifest, loaded, doc, exported, skipped, errors,
                    prevThreads, prevDoc, prevSaved, prevFile >>
    /\ UNCHANGED << walkVars, imgVars, restVars >>

\* Between the two runs a document is edited: its token advances, its
\* content changes, or both.
RemoteChange ==
    /\ epc \in {"done", "raised"}
    /\ ~second
    /\ ~remoteChanged
    /\ \E t \in Threads, newTok, newHtml \in BOOLEAN :
          /\ newTok \/ newHtml
          /\ newTok => remote[t].tok # 0
          /\ remote' = [remote EXCEPT ![t] =
                           [tok |-> IF newTok THEN @.tok + 1 ELSE @.tok,
                            html |-> IF newHtml THEN @.html + 1 ELSE @.html]]
    /\ remoteChanged' = TRUE
    /\ UNCHANGED << manifestFile, mdFiles, mdTmp, frontMatter, now, epc, second,
                    threads, ti, manifest, loaded, doc, exported, skipped, errors,
                    prevThreads, prevDoc, prevSaved, prevFile, saved, tmpFile >>
    /\ UNCHANGED << walkVars, imgVars, restVars >>

WalkAtRest ==
    /\ children = [f \in Folders |-> <<>>]
    /\ folderOk = [f \in Folders |-> "?"]
    /\ threadOk = [t \in Threads |-> "?"]
    /\ recursive = TRUE
    /\ wpc = "idle"
    /\ to_visit = <<>>
    /\ seen_folders = {}
    /\ folder_info = << >>
    /\ out = <<>>
    /\ fid = Root
    /\ ci = 1
    /\ folderReq = [f \in Folders |-> 0]
    /\ reordered = FALSE
    /\ prevOut = <<>>
    /\ pace = "none"

\* Before the first run: no manifest, no file; every document has a token
\* or none, the first one content or none (the second one has content).
Init ==
    /\ RestAtRest
    /\ WalkAtRest
    /\ ImgAtRest
    /\ maintain_structure \in BOOLEAN
    /\ remote \in { r \in [Threads -> [tok : {0, 1}, html : {0, 1}]] : r[T2].html = 1 }
    /\ ExpFresh

Next ==
    \/ ExpStart
    \/ ExpStartEmpty
    \/ SkipUnchangedToken
    \/ FetchFails
    \/ NoContent
    \/ SkipUnchangedHash
    \/ PathsRaise
    \/ ExportFails
    \/ ExportOk
    \/ ExpSave
    \/ RemoteChange

Spec == Init /\ [][Next]_vars

\* ----------------------------- export_folder_to_markdown and its manifest file

\* Lines 120-123 and 147-148: manifest.get raises AttributeError when the
\* loaded value is not a mapping; neither line is inside the try of line 168.
ManifestGetRaises ==
    /\ AtDoc
    /\ ~IsDict(manifest)
    /\ LET t == threads[ti] IN
        /\ t.updated_usec # 0 \/ remote[t.id].html # 0
        /\ doc' = [doc EXCEPT ![ti] =
                      [PendingDoc EXCEPT !.fetches = IF t.updated_usec # 0 THEN 0 ELSE 1,
                                         !.fault = "manifest"]]
    /\ epc' = "raised"
    /\ UNCHANGED << remote, remoteChanged, manifestFile, mdFiles, mdTmp, frontMatter,
                    now, second, threads, ti, manifest, loaded, exported, skipped,
                    errors, prevThreads, prevDoc, prevSaved, prevFile, saved,
                    tmpFile >>
    /\ UNCHANGED << walkVars, imgVars, restVars >>

\* What save_manifest leaves alone.
SaveFrame ==
    /\ UNCHANGED << remote, remoteChanged, mdFiles, mdTmp, frontMatter, now, second,
                    threads, ti, manifest, loaded, doc, exported, skipped, errors,
                    prevThreads, prevDoc, prevSaved, prevFile >>
    /\ UNCHANGED << walkVars, imgVars, restVars >>

\* The text is written to manifest.json itself.
SaveOpenInPlace ==
    /\ epc = "docs"
    /\ ti > Len(threads)
    /\ manifestFile' = CorruptFile
    /\ epc' = "saving"
    /\ UNCHANGED << tmpFile, saved >>
    /\ SaveFrame

\* Lines 26-30: save_manifest is called at line 223; write_text opens
\* manifest.json.tmp, which is empty from then on.
SaveOpen ==
    /\ epc = "docs"
    /\ ti > Len(threads)
    /\ tmpFile' = CorruptFile
    /\ epc' = "saving"
    /\ UNCHANGED << manifestFile, saved >>
    /\ SaveFrame

\* Lines 27-30: the text is written to manifest.json.tmp and the file closed.
SaveWrite ==
    /\ epc = "saving"
    /\ tmpFile' = Serialised(manifest)
    /\ epc' = "written"
    /\ UNCHANGED << manifestFile, saved >>
    /\ SaveFrame

\* Line 32: tmp.replace(path), one rename.
SaveReplace ==
    /\ epc = "written"
    /\ manifestFile' = tmpFile
    /\ tmpFile' = AbsentFile
    /\ saved' = TRUE
    /\ epc' = "done"
    /\ SaveFrame

\* The process is killed inside save_manifest.
Crash ==
    /\ epc \in {"saving", "written"}
    /\ epc' = "crashed"
    /\ UNCHANGED << manifestFile, tmpFile, saved >>
    /\ SaveFrame

\* Before the first run manifest.json is absent, unreadable as JSON, or holds
\* the JSON text "[]"; the first document has no token, the second one has.
InitManifest ==
    /\ RestAtRest
    /\ WalkAtRest
    /\ ImgAtRest
    /\ maintain_structure \in BOOLEAN
    /\ remote \in { r \in [Threads -> [tok : {0, 1}, html : {0, 1}]] :
                       r[T1].tok = 0 /\ r[T2] = [tok |-> 1, html |-> 1] }
    /\ manifestFile \in { AbsentFile, CorruptFile, ArrayFile }
    /\ ExpRunFresh

NextManifest ==
    \/ ExpStart
    \/ ExpStartEmpty
    \/ ManifestGetRaises
    \/ SkipUnchangedToken
    \/ FetchFails
    \/ NoContent
    \/ SkipUnchangedHash
    \/ PathsRaise
    \/ ExportFails
    \/ ExportOk
    \/ SaveOpen
    \/ SaveWrite
    \/ SaveReplace
    \/ Crash

SpecManifest == InitManifest /\ [][NextManifest]_vars

\* ------------------------------- export_folder_to_markdown on walked folder paths

Range(list) == { list[i] : i \in 1..Len(list) }

\* Where the climb from f along the parents p stops after at most n steps.
RECURSIVE Climb(_, _, _)
Climb(p, f, n) == IF f = Root \/ n = 0 THEN f ELSE Climb(p, p[f], n - 1)

\* The parents list_folder_threads can record on the second remote: a folder
\* is queued by a folder that lists it (endpoints.py 216-218) and every
\* chain of parents ends at the root.
ParentChoices ==
    { p \in [Folders \ {Root} -> Folders] :
         \A f \in Folders \ {Root} :
             /\ FolderRef(f) \in Range(PathMenu(p[f]))
             /\ Climb(p, f, Cardinality(Folders)) = Root }

\* folder_info for such parents.
InfoOf(p) ==
    [f \in Folders |->
        [name |-> FolderTitle(f), parent |-> IF f = Root THEN None ELSE p[f]]]

\* The folder paths _build_folder_path gives document t on that remote.
WalkedPlaces(t) ==
    { _build_folder_path(f, Root, InfoOf(p)) :
        f \in { g \in Folders : ThreadRef(t) \in Range(PathMenu(g)) },
        p \in ParentChoices }

WalkedDescriptors(structure, rem) ==
    UNION { { ThreadMeta(t, ThreadTitle(t), rem[t].tok, None, p) :
                p \in IF structure THEN WalkedPlaces(t) ELSE { NoPath } } :
            t \in Threads }

\* What list_folder_threads can return on the second remote.
WalkedLists(structure, rem) ==
    { SortThreads(l, structure) :
        l \in UNION { [1..n -> WalkedDescriptors(structure, rem)] : n \in 1..MaxThreads } }

\* Lines 89-116: the walk of the second remote returns documents.
LayoutStart ==
    /\ epc = "idle"
    /\ Begin
    /\ \E l \in WalkedLists(maintain_structure, remote) :
          /\ threads' = l
          /\ doc' = [i \in 1..Len(l) |-> PendingDoc]
    /\ epc' = "docs"
    /\ UNCHANGED << walkVars, imgVars, restVars >>

\* One run on an empty export root; the first document has no token and
\* content or none, the second one a token and content.
InitLayout ==
    /\ RestAtRest
    /\ WalkAtRest
    /\ ImgAtRest
    /\ maintain_structure \in BOOLEAN
    /\ remote \in { r \in [Threads -> [tok : {0, 1}, html : {0, 1}]] :
                       r[T1].tok = 0 /\ r[T2] = [tok |-> 1, html |-> 1] }
    /\ ExpFresh

NextLayout ==
    \/ LayoutStart
    \/ SkipUnchangedToken
    \/ FetchFails
    \/ NoContent
    \/ SkipUnchangedHash
    \/ PathsRaise
    \/ ExportFails
    \/ ExportOk
    \/ ExpSave

SpecLayout == InitLayout /\ [][NextLayout]_vars

\* ----------------------- export_folder_to_markdown step by step, with a crash

\* What the steps of one document leave alone.
StepFrame ==
    /\ UNCHANGED << remote, remoteChanged, manifestFile, now, second, threads, loaded,
                    prevThreads, prevDoc, prevSaved, prevFile, saved, tmpFile >>
    /\ UNCHANGED << walkVars, imgVars, restVars >>

\* Lines 153-204 up to tmp.write_bytes of safe_write_atomic (filesystem.py
\* 20-21): the document is converted and its text written to <name>.md.tmp.
StepWriteTmp ==
    /\ AtDoc
    /\ Changed(threads[ti], manifest)
    /\ ~MkdirRaises(threads[ti])
    /\ mdTmp' = mdTmp \cup { md_path(threads[ti], maintain_structure) }
    /\ epc' = "mdtmp"
    /\ UNCHANGED << mdFiles, frontMatter, ti, manifest, doc, exported, skipped, errors >>
    /\ StepFrame

\* The rename is taken for done although the file is not there.
StepReplaceLost ==
    /\ epc = "mdtmp"
    /\ mdTmp' = mdTmp \ { md_path(threads[ti], maintain_structure) }
    /\ epc' = "mdwritten"
    /\ UNCHANGED << mdFiles, frontMatter, ti, manifest, doc, exported, skipped, errors >>
    /\ StepFrame

\* filesystem.py 22: tmp.replace(path); the Markdown file is complete.
StepReplace ==
    /\ epc = "mdtmp"
    /\ LET mp == md_path(threads[ti], maintain_structure) IN
        /\ mdTmp' = mdTmp \ {mp}
        /\ mdFiles' = mdFiles \cup {mp}
        /\ frontMatter' = SetItem(frontMatter, mp,
                                  FrontMatter(threads[ti], maintain_structure))
    /\ epc' = "mdwritten"
    /\ UNCHANGED << ti, manifest, doc, exported, skipped, errors >>
    /\ StepFrame

\* Lines 206-221: the entry is assigned and the document EXPORTED; when
\* md_path is not under folder_dir, relative_to raises at line 208 and the
\* document is FAILED.  The downloaded images are those of the conversion.
StepRecord ==
    /\ epc = "mdwritten"
    /\ LET t == threads[ti]
           html == remote[t.id].html
           images == HtmlImages(t.id, html)
           mp == md_path(t, maintain_structure)
           ok == IsUnder(mp, folder_dir)
       IN
        /\ \E got \in [1..Len(images) -> BOOLEAN] :
              LET r == process_images(images, got, doc_assets(t), Parent(mp)) IN
              manifest' = IF ok
                          THEN SetItem(manifest, t.id,
                                       ManifestEntry(t, EffectiveKey(t, html), r.downloaded))
                          ELSE manifest
        /\ doc' = [doc EXCEPT ![ti] =
                      [state |-> IF ok THEN "EXPORTED" ELSE "FAILED",
                       fetches |-> 1,
                       written |-> TRUE,
                       prevKey |-> StoredKey(manifest, t.id),
                       fault |-> IF ok THEN "none" ELSE "write"]]
        /\ exported' = IF ok THEN exported + 1 ELSE exported
        /\ errors' = IF ok THEN errors ELSE errors + 1
    /\ ti' = ti + 1
    /\ epc' = "docs"
    /\ UNCHANGED << mdFiles, mdTmp, frontMatter, skipped >>
    /\ StepFrame

\* The process of the first run is killed between two steps of the loop.
CrashInLoop ==
    /\ epc \in {"docs", "mdtmp", "mdwritten"}
    /\ ~second
    /\ epc' = "crashed"
    /\ UNCHANGED << mdFiles, mdTmp, frontMatter, ti, manifest, doc, exported, skipped,
                    errors >>
    /\ StepFrame

NextCrash ==
    \/ ExpStart
    \/ ExpStartEmpty
    \/ SkipUnchangedToken
    \/ FetchFails
    \/ NoContent
    \/ SkipUnchangedHash
    \/ PathsRaise
    \/ ExportFails
    \/ StepWriteTmp
    \/ StepReplace
    \/ StepRecord
    \/ CrashInLoop
    \/ SaveOpen
    \/ SaveWrite
    \/ SaveReplace
    \/ Crash

SpecCrash == InitLayout /\ [][NextCrash]_vars

\* ------------------------------------------------------- export_all_folders

\* Longest list get_user_folders returns.
MaxFolders == 3

AllFrame == UNCHANGED << walkVars, expVars, imgVars, gwVars >>

\* The display names of the accessible folders: those of the walker's
\* remote, or folder C has the display name of A, or a name with A's slug.
TitleChoices ==
    { [f \in Folders |-> FolderTitle(f)],
      [f \in Folders |-> IF f = "C" THEN FolderTitle("A") ELSE FolderTitle(f)],
      [f \in Folders |-> IF f = "C" THEN << "a" >> ELSE FolderTitle(f)] }

\* The output directory given on the command line.
out_dir == << Slash, << "o" >> >>

\* exporter.py 93-101: folder_dir, the export root of a folder of that name;
\* its manifest is folder_dir / "manifest.json".
ExportRoot(folder_name) == PathDiv(out_dir, slugify(folder_name))

\* resolve_folder_id: the display name of the folder, or the identity given
\* when the request does not succeed.
ResolvedName(f, resolved) == IF resolved THEN titles[f] ELSE << f >>

\* The document of a top-level folder.
DocOf(f) == << "d", f >>

\* The identities of the manifest load_manifest finds in directory dir.
LoadedIds(dir) == IF dir \in DOMAIN manifests THEN manifests[dir] ELSE {}

\* exporter.py 89-225 for one folder: the export root is resolved and its
\* manifest loaded; listed are the documents the walk returns, exported those
\* that end EXPORTED; the manifest is saved unless no document is listed.
ExportFolder(f, resolved, listed, exported_ids) ==
    LET dir == ExportRoot(ResolvedName(f, resolved)) IN
    /\ exports' = Append(exports, [root |-> dir, docs |-> exported_ids])
    /\ manifests' =
          IF listed = {} THEN manifests
          ELSE [d \in DOMAIN manifests \cup {dir} |->
                   IF d = dir THEN LoadedIds(dir) \cup exported_ids ELSE manifests[d]]

\* get_user_folders returns a list of dicts with the keys id and title; it
\* does not remove a folder it finds twice.
AllInit ==
    /\ WalkAtRest
    /\ ExpAtRest
    /\ ImgAtRest
    /\ GwAtRest
    /\ maintain_structure = FALSE
    /\ apc = "idle"
    /\ titles \in TitleChoices
    /\ accessible \in UNION { [1..n -> { [id |-> f, title |-> titles[f]] : f \in Folders }] :
                               n \in 0..MaxFolders }
    /\ folders = <<>>
    /\ fi = 1
    /\ calls = <<>>
    /\ raisedAt = {}
    /\ manifests = << >>
    /\ exports = <<>>

\* Lines 38-42: no folder.
AllNoFolders ==
    /\ apc = "idle"
    /\ accessible = <<>>
    /\ apc' = "returned"
    /\ UNCHANGED << accessible, folders, fi, calls, raisedAt, titles, manifests,
                    exports >>
    /\ AllFrame

\* Lines 38-50: the list is there; the loop starts.
AllStart ==
    /\ apc = "idle"
    /\ accessible # <<>>
    /\ folders' = accessible
    /\ fi' = 1
    /\ apc' = "loop"
    /\ UNCHANGED << accessible, calls, raisedAt, titles, manifests, exports >>
    /\ AllFrame

\* Lines 50-62: export_folder_to_markdown is called and returns.
AllExportReturns ==
    /\ apc = "loop"
    /\ fi <= Len(folders)
    /\ calls' = Append(calls, folders[fi].id)
    /\ \E resolved \in BOOLEAN, listed \in SUBSET { DocOf(folders[fi].id) } :
          \E exported_ids \in SUBSET listed :
              ExportFolder(folders[fi].id, resolved, listed, exported_ids)
    /\ fi' = fi + 1
    /\ UNCHANGED << apc, accessible, folders, raisedAt, titles >>
    /\ AllFrame

\* An exception of the export of a folder ends the loop.
AllExportRaisesEnds ==
    /\ apc = "loop"
    /\ fi <= Len(folders)
    /\ calls' = Append(calls, folders[fi].id)
    /\ raisedAt' = raisedAt \cup {fi}
    /\ \E resolved \in BOOLEAN : ExportFolder(folders[fi].id, resolved, {}, {})
    /\ apc' = "returned"
    /\ UNCHANGED << accessible, folders, fi, titles >>
    /\ AllFrame

\* Lines 50-65: export_folder_to_markdown is called and raises an Exception
\* (before its manifest save); it is printed and the loop continues.
AllExportRaises ==
    /\ apc = "loop"
    /\ fi <= Len(folders)
    /\ calls' = Append(calls, folders[fi].id)
    /\ raisedAt' = raisedAt \cup {fi}
    /\ \E resolved \in BOOLEAN : ExportFolder(folders[fi].id, resolved, {}, {})
    /\ fi' = fi + 1
    /\ UNCHANGED << apc, accessible, folders, titles >>
    /\ AllFrame

\* Lines 67-69: the loop is over.
AllReturn ==
    /\ apc = "loop"
    /\ fi > Len(folders)
    /\ apc' = "returned"
    /\ UNCHANGED << accessible, folders, fi, calls, raisedAt, titles, manifests,
                    exports >>
    /\ AllFrame

AllNext ==
    \/ AllNoFolders
    \/ AllStart
    \/ AllExportReturns
    \/ AllExportRaises
    \/ AllReturn

SpecAll == AllInit /\ [][AllNext]_vars

\* ------------------------------------- api/client.py, utils/network.py: requests

\* range(4)
Attempts == 4

\* Line 26: the statuses that are retried without raise_for_status.
Retryable == { 429, 502, 503, 504 }

\* No response: session.get raises a RequestException (connection error,
\* timeout).
NoResponse == 0

\* What the remote answers to one request.
Statuses == { 200, 404, 429, 503, NoResponse }

\* raise_for_status raises HTTPError, a RequestException, for 4xx and 5xx.
RaisesForStatus(status) == status >= 400 /\ status < 600

Min(a, b) == IF a <= b THEN a ELSE b

\* backoff_sleep(i): time.sleep(min(2.0 * (2 ** i), 10.0)), in seconds.
backoff_sleep(i) == Min(2 * (2 ^ i), 10)

\* The functions that call session.get themselves, once, inside try/except.
DirectCallers == { "fetch_thread", "list_folder_threads", "resolve_folder_id",
                   "get_user_folders" }

GatewayCallers == { "get_json", "get_raw" }

GwFrame == UNCHANGED << walkVars, expVars, imgVars, allVars >>

\* A call starts; the remote has an answer for each request it may get.
GwInit ==
    /\ WalkAtRest
    /\ ExpAtRest
    /\ ImgAtRest
    /\ AllAtRest
    /\ maintain_structure = FALSE
    /\ gpc = "loop"
    /\ caller \in GatewayCallers \cup DirectCallers
    /\ responses \in [1..Attempts -> Statuses]
    /\ attempt = 0
    /\ requests = 0
    /\ sleeps = <<>>
    /\ lastEvent = "none"
    /\ result = "none"

\* The loop of get_json or get_raw is at attempt i < 4.
InLoop == gpc = "loop" /\ caller \in GatewayCallers /\ attempt < Attempts

\* Lines 25-30, 42-47: the response has a status that is neither retried nor
\* an error; its payload is returned.
GwReturns ==
    /\ InLoop
    /\ LET status == responses[attempt + 1] IN
        /\ status # NoResponse
        /\ status \notin Retryable
        /\ ~RaisesForStatus(status)
    /\ requests' = requests + 1
    /\ lastEvent' = "request"
    /\ result' = "payload"
    /\ gpc' = "returned"
    /\ UNCHANGED << caller, responses, attempt, sleeps >>
    /\ GwFrame

\* Lines 26-28, 43-45: a retryable status; backoff_sleep(i), the next i.
GwRetryableStatus ==
    /\ InLoop
    /\ responses[attempt + 1] \in Retryable
    /\ requests' = requests + 1
    /\ sleeps' = Append(sleeps, backoff_sleep(attempt))
    /\ lastEvent' = "sleep"
    /\ attempt' = attempt + 1
    /\ UNCHANGED << gpc, caller, responses, result >>
    /\ GwFrame

\* A RequestException is raised inside the try: by session.get, or by
\* raise_for_status for an error status that is not retryable.
RequestException(status) ==
    status = NoResponse \/ (status \notin Retryable /\ RaisesForStatus(status))

\* Lines 31-34, 48-51: the exception is caught; i is not 3: backoff_sleep(i),
\* the next i.
GwExceptionRetried ==
    /\ InLoop
    /\ RequestException(responses[attempt + 1])
    /\ attempt # Attempts - 1
    /\ requests' = requests + 1
    /\ sleeps' = Append(sleeps, backoff_sleep(attempt))
    /\ lastEvent' = "sleep"
    /\ attempt' = attempt + 1
    /\ UNCHANGED << gpc, caller, responses, result >>
    /\ GwFrame

\* Lines 31-33, 48-50: the exception is caught; i is 3: it is raised again.
GwExceptionRaised ==
    /\ InLoop
    /\ RequestException(responses[attempt + 1])
    /\ attempt = Attempts - 1
    /\ requests' = requests + 1
    /\ lastEvent' = "request"
    /\ result' = "raised"
    /\ gpc' = "returned"
    /\ UNCHANGED << caller, responses, attempt, sleeps >>
    /\ GwFrame

\* Lines 35, 52: the loop ended without return or raise; RuntimeError.
GwLoopExhausted ==
    /\ gpc = "loop"
    /\ caller \in GatewayCallers
    /\ attempt = Attempts
    /\ result' = "raised"
    /\ gpc' = "returned"
    /\ UNCHANGED << caller, responses, attempt, requests, sleeps, lastEvent >>
    /\ GwFrame

\* endpoints.py 169-172, 190-193, 123-129, 22-24, 269-271: session.get and
\* the use of the response succeed.
DirectReturns ==
    /\ gpc = "loop"
    /\ caller \in DirectCallers
    /\ responses[1] = 200
    /\ requests' = requests + 1
    /\ lastEvent' = "request"
    /\ result' = "payload"
    /\ gpc' = "returned"
    /\ UNCHANGED << caller, responses, attempt, sleeps >>
    /\ GwFrame

\* endpoints.py 173-175, 212-213, 130-134, 108-110, 272-273: any other
\* outcome of the one request: the folder or document is left out (None, the
\* fallback pair, an empty list).
DirectGivesUp ==
    /\ gpc = "loop"
    /\ caller \in DirectCallers
    /\ responses[1] # 200
    /\ requests' = requests + 1
    /\ lastEvent' = "request"
    /\ result' = "skipped"
    /\ gpc' = "returned"
    /\ UNCHANGED << caller, responses, attempt, sleeps >>
    /\ GwFrame

GwNext ==
    \/ GwReturns
    \/ GwRetryableStatus
    \/ GwExceptionRetried
    \/ GwExceptionRaised
    \/ GwLoopExhausted
    \/ DirectReturns
    \/ DirectGivesUp

SpecGateway == GwInit /\ [][GwNext]_vars

\* -------------------------------------------- process_images, as it is called

\* <img> elements: two remote images with the same file name, two data URLs
\* of the same media type that decode, one that does not, and a blank src.
RemoteImageQuery ==
    [src |-> << "g", "/", "i", ".", "p", "n", "g", "?", "v" >>, alt |-> NoAlt]

DataImageOther == [src |-> DataPrefix \o << Png, ",", "REVG" >>, alt |-> <<>>]

DataImageBroken == [src |-> DataPrefix \o << Jpeg, ",", "Q" >>, alt |-> <<>>]

BlankImage == [src |-> << " " >>, alt |-> <<>>]

ImageRefs ==
    { RemoteImage, RemoteImageQuery, DataImage, DataImageOther, DataImageBroken,
      BlankImage }

\* The exporter is at line 171 for some document, with some html.
ImgInit ==
    /\ RestAtRest
    /\ WalkAtRest
    /\ ExpAtRest
    /\ maintain_structure \in BOOLEAN
    /\ ipc = "call"
    /\ \E t \in Descriptors(maintain_structure, remote) :
          /\ img_relative_to = Parent(md_path(t, maintain_structure))
          /\ img_assets_dir = doc_assets(t)
    /\ imgs \in UNION { [1..n -> ImageRefs] : n \in 0..MaxImages }
    /\ img_got \in [1..Len(imgs) -> BOOLEAN]
    /\ img_result = process_images(<<>>, <<>>, <<>>, <<>>)

\* Lines 37-86: the call.
ProcessImages ==
    /\ ipc = "call"
    /\ img_result' = process_images(imgs, img_got, img_assets_dir, img_relative_to)
    /\ ipc' = "returned"
    /\ UNCHANGED << imgs, img_got, img_relative_to, img_assets_dir >>
    /\ UNCHANGED << walkVars, expVars, restVars >>

\* exporter.py 177-218: the html with the rewritten images is converted and
\* written, the entry recorded; the document is EXPORTED.
DocExported ==
    /\ ipc = "returned"
    /\ ipc' = "EXPORTED"
    /\ UNCHANGED << imgs, img_got, img_relative_to, img_assets_dir, img_result >>
    /\ UNCHANGED << walkVars, expVars, restVars >>

\* exporter.py 177-204, 219-221: the conversion or the write raises; the
\* document is FAILED.
DocFailed ==
    /\ ipc = "returned"
    /\ ipc' = "FAILED"
    /\ UNCHANGED << imgs, img_got, img_relative_to, img_assets_dir, img_result >>
    /\ UNCHANGED << walkVars, expVars, restVars >>

ImgNext == ProcessImages \/ DocExported \/ DocFailed

SpecImg == ImgInit /\ [][ImgNext]_vars

\* ------------------------------------------------- claims about the walker

Ids(list) == { list[i].id : i \in 1..Len(list) }

\* The children of folder f that are documents / subfolders.
DocsOf(f) ==
    { children[f][i].thread_id :
        i \in { k \in 1..Len(children[f]) : "thread_id" \in DOMAIN children[f][k] } }

SubfoldersOf(f) ==
    { children[f][i].folder_id :
        i \in { k \in 1..Len(children[f]) : "thread_id" \notin DOMAIN children[f][k] } }

\* The folders reachable from the root through folders whose retrieval does
\* not fail (subfolders are followed only in a recursive call).
RECURSIVE ReachFrom(_)
ReachFrom(S) ==
    LET more == UNION { SubfoldersOf(f) : f \in { g \in S : folderOk[g] # "fail" } }
    IN  IF ~recursive \/ more \subseteq S THEN S ELSE ReachFrom(S \cup more)

Retrieved == { f \in ReachFrom({Root}) : folderOk[f] # "fail" }

ExpectedDocs ==
    { t \in Threads : threadOk[t] # "fail" /\ \E f \in Retrieved : t \in DocsOf(f) }

\* C6: within one result of list_folder_threads, document identities are unique.
C6_UniqueIdentities ==
    wpc = "done" => \A i, j \in 1..Len(out) : out[i].id = out[j].id => i = j

\* The order the claim documents: (folder path, lower-cased title, identity)
\* with path tracking, (lower-cased title, identity) without.
DocumentedKey(x) ==
    IF maintain_structure
    THEN << x.folder_path, Lower(x.title), x.id >>
    ELSE << Lower(x.title), x.id >>

SortedAsDocumented ==
    \A i, j \in 1..Len(out) :
        i < j => ~TupleLess(DocumentedKey(out[j]), DocumentedKey(out[i]))

WalkMeasure ==
    (2 * MaxChildren + 1) * Cardinality(Folders \ seen_folders)
    + Len(to_visit)
    + (IF wpc = "children" THEN 2 * (Len(children[fid]) + 1 - ci) + 2
       ELSE IF wpc = "loop" THEN 1 ELSE 0)

\* C8: every call of list_folder_threads returns, also on graphs with cycles
\* and diamonds (every step of a running call decreases a natural-numbered
\* variant and a running call can always take a step), and no folder
\* identity is retrieved twice in one call.
C8_TerminatesOneRetrieval ==
    /\ [](\A f \in Folders : folderReq[f] <= 1)
    /\ [](WalkMeasure \in Nat)
    /\ [][(wpc \in {"loop", "children"}) => (WalkMeasure' < WalkMeasure)]_vars
    /\ [](wpc \in {"loop", "children"} => ENABLED WalkNext)

\* A call that returned after it met a cycle (C lists the root), the
\* self-reference of B and the diamond on C.
C8_Witness ==
    /\ wpc = "done"
    /\ {"A", "B", "C"} \subseteq seen_folders
    /\ "R" \in SubfoldersOf("C")
    /\ "B" \in SubfoldersOf("B")
    /\ "C" \in SubfoldersOf("A")

\* C9: a call in which retrievals fail still returns, and returns exactly the
\* documents whose retrieval succeeds and that are listed by a folder
\* retrieved successfully and reachable through such folders; every folder
\* reached is requested, a failed one contributes nothing.
C9_ExactlyRetrievable ==
    wpc = "done" =>
        /\ Ids(out) = ExpectedDocs
        /\ { f \in Folders : folderReq[f] > 0 } = ReachFrom({Root})
        /\ DOMAIN folder_info = Retrieved

C9_Witness ==
    /\ wpc = "done"
    /\ folderOk["B"] = "fail"
    /\ threadOk[T2] = "fail"
    /\ "C" \in Retrieved
    /\ Ids(out) = {T1}

\* ------------------------------------------------ claims about the exporter

\* The documents of this run are those of the remote as it is now (not so
\* between the runs, once a document has been edited).
RunCurrent == second \/ ~remoteChanged

\* The change key as documented: the version token when the descriptor has
\* one, the hash of the fetched content otherwise.
ClaimedKey(t) ==
    IF t.updated_usec # 0 THEN str(t.updated_usec) ELSE sha256_bytes(remote[t.id].html)

AllGood(d) ==
    \A i \in DOMAIN d : d[i].state \in {"EXPORTED", "SKIPPED_UNCHANGED"}

\* The second run, on the folder as the first run found it, the first run
\* having saved its manifest.
SecondRunSameFolder ==
    second /\ ~remoteChanged /\ threads = prevThreads /\ prevSaved

C2_TokenMatchSkipsWithoutFetch ==
    \A i \in DOMAIN doc :
        ( /\ threads[i].updated_usec # 0
          /\ StoredKey(loaded, threads[i].id) = str(threads[i].updated_usec) )
        => /\ doc[i].fetches = 0
           /\ ~doc[i].written
           /\ doc[i].state \in {"PENDING", "SKIPPED_UNCHANGED"}

\* The content of a document changed under an unchanged token, and the
\* second run skipped it.
C2_Witness ==
    /\ second
    /\ \E i \in DOMAIN doc :
          /\ threads[i].updated_usec # 0
          /\ StoredKey(loaded, threads[i].id) = str(threads[i].updated_usec)
          /\ remote[threads[i].id].html = 2
          /\ doc[i].state = "SKIPPED_UNCHANGED"

\* C3: a document whose effective change key (version token if present,
\* content hash otherwise) is not the stored key, or that has no entry, is
\* fetched; when its content is present and no step fails it ends in EXPORTED
\* and every EXPORTED document's entry holds the effective key; a token-less
\* document whose content hash is the stored key ends in SKIPPED_UNCHANGED
\* after the fetch, without any write.
C3_EffectiveKeyDecides ==
    RunCurrent =>
    \A i \in DOMAIN doc :
        LET t == threads[i]
            d == doc[i]
            html == remote[t.id].html
            done == d.state # "PENDING"
        IN  /\ ( /\ done \/ d.fault = "paths"
                 /\ t.updated_usec = 0 \/ d.prevKey # ClaimedKey(t) )
               => d.fetches = 1
            /\ (done /\ html # 0 /\ d.fault = "none" /\ d.prevKey # ClaimedKey(t))
               => d.state = "EXPORTED" /\ d.written
            /\ d.state = "EXPORTED" => StoredKey(manifest, t.id) = ClaimedKey(t)
            /\ ( /\ done
                 /\ t.updated_usec = 0
                 /\ html # 0
                 /\ d.fault = "none"
                 /\ d.prevKey = ClaimedKey(t) )
               => d.state = "SKIPPED_UNCHANGED" /\ d.fetches = 1 /\ ~d.written

\* The second run exports an edited token-less document over its old entry
\* and skips another one on its hash.
C3_Witness ==
    /\ second
    /\ remoteChanged
    /\ \E i, j \in DOMAIN doc :
          /\ threads[i].updated_usec = 0
          /\ doc[i].prevKey # NoKey
          /\ doc[i].state = "EXPORTED"
          /\ threads[j].updated_usec = 0
          /\ doc[j].state = "SKIPPED_UNCHANGED"
          /\ doc[j].fetches = 1
          /\ doc[j].prevKey = ClaimedKey(threads[j])

\* C4 (as claimed): an exception raised for one document in steps 4-5 (slug,
\* document directory, asset directory, conversion, front matter, file write)
\* leaves that document FAILED and does not leave the run: the loop goes on
\* to the manifest save.
C4_DocumentFailureIsolated ==
    \A i \in DOMAIN doc :
        doc[i].fault \in {"paths", "write"} => doc[i].state = "FAILED" /\ epc # "raised"

ExportedIds == { threads[i].id : i \in { k \in DOMAIN doc : doc[k].state = "EXPORTED" } }

\* C5: the manifest of a run (and the file it saves) keeps, for every
\* identity that is not EXPORTED in the run, exactly the loaded entry (none if
\* none was loaded); no loaded key is removed, documents that are no longer
\* listed included; a FAILED document keeps a stored key that is not its
\* effective key, and the next run fetches it again (at its first occurrence
\* in the list).
C5_ManifestFrame ==
    /\ DOMAIN loaded \subseteq DOMAIN manifest
    /\ \A id \in Threads \ ExportedIds :
          /\ id \in DOMAIN manifest => id \in DOMAIN loaded
          /\ id \in DOMAIN loaded => manifest[id] = loaded[id]
    /\ saved => load_manifest(manifestFile) = manifest
    /\ RunCurrent =>
          \A i \in DOMAIN doc :
              (doc[i].state = "FAILED" /\ threads[i].id \notin ExportedIds)
              => StoredKey(manifest, threads[i].id) # ClaimedKey(threads[i])
    /\ second =>
          \A i \in DOMAIN doc :
              ( /\ doc[i].state # "PENDING"
                /\ \A j \in 1..(i - 1) : threads[j].id # threads[i].id
                /\ \E j \in DOMAIN prevDoc :
                      prevThreads[j].id = threads[i].id /\ prevDoc[j].state = "FAILED"
                /\ \A j \in DOMAIN prevDoc :
                      prevThreads[j].id = threads[i].id => prevDoc[j].state # "EXPORTED" )
              => doc[i].fetches = 1

\* The second run saved: a document of the loaded manifest is no longer
\* listed, another one with a loaded entry FAILED, and both entries are as
\* loaded.
C5_Witness ==
    /\ second
    /\ saved
    /\ \E id \in DOMAIN loaded : id \notin Ids(threads) /\ manifest[id] = loaded[id]
    /\ \E i \in DOMAIN doc :
          /\ doc[i].state = "FAILED"
          /\ threads[i].id \in DOMAIN loaded
          /\ manifest[threads[i].id] = loaded[threads[i].id]

\* ------------------------------------------------- claims about folder paths

\* Where the climb from f along the recorded parents stops: at the root, at
\* a folder that is not in the map, at None, or after n steps.
RECURSIVE Top(_, _)
Top(f, n) ==
    IF f = Root \/ f = None \/ f \notin DOMAIN folder_info \/ n = 0
    THEN f
    ELSE Top(folder_info[f].parent, n - 1)

\* The folders of that climb, root excluded, from the root's side to f.
RECURSIVE ChainUp(_, _)
ChainUp(f, n) ==
    IF f = Root \/ f = None \/ f \notin DOMAIN folder_info \/ n = 0
    THEN <<>>
    ELSE Append(ChainUp(folder_info[f].parent, n - 1), f)

\* The folders within n listing steps of the root, through folders whose
\* retrieval succeeded.
RECURSIVE Within(_)
Within(n) ==
    IF n = 0 THEN {Root}
    ELSE LET S == Within(n - 1) IN
         IF recursive
         THEN S \cup UNION { SubfoldersOf(g) : g \in { h \in S : folderOk[h] = "ok" } }
         ELSE S

\* Breadth-first distance of a reached folder from the root.
Dist(f) ==
    CHOOSE n \in 0..Cardinality(Folders) :
        f \in Within(n) /\ (n = 0 \/ f \notin Within(n - 1))

\* C19 (as claimed): the folder path of a document appended while folder fid
\* is read is the '/'-join, root to leaf, of the slugs of the folders on the
\* recorded parent chain of fid, the root excluded; it is empty exactly when
\* fid is the root; the chain has as many folders as the breadth-first
\* distance of fid from the root; without path tracking the path is None.
C19_FolderPathIsParentChain ==
    [][(Len(out') = Len(out) + 1) =>
          LET p == out'[Len(out')].folder_path
              chain == ChainUp(fid, Cardinality(Folders))
          IN  IF maintain_structure
              THEN /\ p = JoinSlash([i \in 1..Len(chain) |-> SlugOf[FolderTitle(chain[i])]])
                   /\ (p = <<>>) <=> (fid = Root)
                   /\ Len(chain) = Dist(fid)
              ELSE p = NoPath]_vars

\* C20: every folder of the parent map keeps the entry it got; the recorded
\* parent is None for the root and for no other folder, and else a folder of
\* the map; the parent chain of every folder of the map reaches the root with
\* no folder twice; the folder whose children are read is in the map, so
\* that _build_folder_path never meets a folder that is not in the map and
\* its loop ends at the root.
C20_ParentMapInvariant ==
    /\ [](\A f \in DOMAIN folder_info :
             LET par == folder_info[f].parent
                 chain == ChainUp(f, Cardinality(Folders))
             IN  /\ (par = None) <=> (f = Root)
                 /\ par # None => par \in DOMAIN folder_info
                 /\ Top(f, Cardinality(Folders)) = Root
                 /\ \A i, j \in 1..Len(chain) : chain[i] = chain[j] => i = j)
    /\ [](wpc = "children" => fid \in DOMAIN folder_info)
    /\ [][\A f \in DOMAIN folder_info :
             (wpc # "idle") =>
                 (f \in DOMAIN folder_info' /\ folder_info'[f] = folder_info[f])]_vars

\* A call returned after it met the diamond (C is listed by A and B, and B
\* by the root and A) and the cycle (C lists the root).
C20_Witness ==
    /\ wpc = "done"
    /\ DOMAIN folder_info = Folders
    /\ folder_info["B"].parent = "R"
    /\ folder_info["C"].parent = "A"
    /\ "B" \in SubfoldersOf("A")
    /\ "C" \in SubfoldersOf("B")
    /\ "R" \in SubfoldersOf("C")

\* ------------------------------------------- claims about the manifest file

\* C12 (as claimed): load_manifest returns the empty mapping whenever
\* manifest.json is absent or does not hold a JSON object, and no document of
\* the export ends with an exception raised by the use of the loaded manifest.
C12_MalformedManifestLoadsEmpty ==
    epc # "idle" =>
        /\ prevFile.kind # "json" => loaded = EmptyDict
        /\ \A i \in DOMAIN doc : doc[i].fault # "manifest"

\* C13: atomic save.  From the load of the manifest to the end of the run,
\* crash included, manifest.json holds what the run found; it changes once,
\* in the rename that ends save_manifest, to the complete serialisation of the
\* manifest in memory.
C13_ManifestFileCompleteOldOrNew ==
    epc # "idle" =>
        /\ epc \in {"docs", "saving", "written", "crashed", "raised"} =>
              manifestFile = prevFile
        /\ manifestFile # prevFile =>
              /\ epc = "done"
              /\ saved
              /\ manifestFile = Serialised(manifest)
        /\ (epc = "done" /\ saved) => manifestFile = Serialised(manifest)

\* The second run crashes after the text is written to manifest.json.tmp and
\* before the rename: manifest.json is the non-empty manifest of the first
\* run, and differs from the text that was being saved.
C13_Witness ==
    /\ epc = "crashed"
    /\ second
    /\ tmpFile.kind = "json"
    /\ manifestFile.kind = "json"
    /\ manifestFile.text # <<>>
    /\ manifestFile # tmpFile

\* ------------------------------------------- claims about export_all_folders

\* C14: export_folder_to_markdown is called once for every element of the
\* list get_user_folders returned, in the order of the list, whichever of the
\* calls raised.
C14_EveryFolderOnceInOrder ==
    /\ apc = "loop" => calls = [i \in 1..(fi - 1) |-> accessible[i].id]
    /\ apc = "returned" => calls = [i \in 1..Len(accessible) |-> accessible[i].id]

\* The export of the first folder raised and the later folders were exported.
C14_Witness ==
    /\ apc = "returned"
    /\ Len(accessible) = MaxFolders
    /\ raisedAt = {1}
    /\ Len(calls) = MaxFolders

\* --------------------------------------------------- claims about requests

\* The statuses of the responses the call has received so far.
Received == [k \in 1..requests |-> responses[k]]

\* C15 (as claimed): in get_json and get_raw a retryable status is followed by
\* another attempt, and a call whose first response has a permanent error
\* status has raised after that one request, without a backoff sleep.
C15_PermanentErrorRaisesAtOnce ==
    (caller \in GatewayCallers /\ requests >= 1) =>
        /\ (responses[1] \in Retryable /\ gpc = "returned") => requests >= 2
        /\ (responses[1] \notin Retryable /\ RaisesForStatus(responses[1])) =>
              /\ gpc = "returned"
              /\ result = "raised"
              /\ requests = 1
              /\ sleeps = <<>>

\* C16 (as claimed): a folder or thread retrieval of list_folder_threads,
\* resolve_folder_id, get_user_folders or fetch_thread whose first response
\* has a retryable status and whose next request would succeed yields the
\* folder or document.
C16_TransientFailureRetried ==
    (/\ caller \in DirectCallers
     /\ gpc = "returned"
     /\ responses[1] \in Retryable
     /\ responses[2] = 200) => result = "payload"

\* C17 (as claimed): get_json and get_raw send at most 4 requests; the call
\* returns the payload of the first successful response or raises; when every
\* response has a retryable status it raises; no backoff sleep follows the
\* last attempt.
C17_BoundedRetryNoTrailingSleep ==
    caller \in GatewayCallers =>
        /\ requests <= Attempts
        /\ gpc = "returned" =>
              /\ result \in {"payload", "raised"}
              /\ result = "payload" <=>
                    /\ Received[requests] = 200
                    /\ \A k \in 1..(requests - 1) : Received[k] # 200
              /\ (\A k \in 1..Attempts : responses[k] \in Retryable) => result = "raised"
              /\ lastEvent = "request"

\* --------------------------------------------- claims about process_images

\* The path a reference names, seen from directory base (".." goes up).
RECURSIVE Resolve(_, _)
Resolve(base, ref) ==
    IF ref = <<>> THEN base
    ELSE IF ref[1] = << ".", "." >> THEN Resolve(Parent(base), Tail(ref))
    ELSE Resolve(Append(base, ref[1]), Tail(ref))

\* The bytes of the i-th image are obtained and written: a data URL that
\* decodes, or a remote image whose download succeeds.
Obtained(i) ==
    LET src == Strip(imgs[i].src) IN
    /\ src # <<>>
    /\ IF StartsWith(src, DataPrefix)
       THEN Contains(src, ",") /\ B64Valid(AfterFirst(src, ","))
       ELSE img_got[i]

AssetOf(i) ==
    LET src == Strip(imgs[i].src) IN
    IF StartsWith(src, DataPrefix)
    THEN PathDiv(img_assets_dir, Embedded(<< "p", "n", "g" >>))
    ELSE PathDiv(img_assets_dir, filename_from_url(src))

\* C10 (as claimed): for every image whose bytes are obtained and written,
\* process_images rewrites the reference to a path that, from the directory
\* of the Markdown file, names the written asset, and records that asset among
\* the downloaded paths; also when the Markdown file lies under a nested
\* folder path.
C10_AssetReferenceResolves ==
    ipc = "returned" =>
        \A i \in DOMAIN imgs :
            Obtained(i) =>
                /\ AssetOf(i) \in img_result.files
                /\ img_result.soup[i].kind = "img"
                /\ Resolve(img_relative_to, img_result.soup[i].src) = AssetOf(i)
                /\ \E k \in DOMAIN img_result.downloaded :
                      img_result.downloaded[k] = AssetOf(i)

\* The i-th image is a data URL whose payload cannot be decoded.
InlineFails(i) ==
    LET src == Strip(imgs[i].src) IN
    /\ StartsWith(src, DataPrefix)
    /\ ~(Contains(src, ",") /\ B64Valid(AfterFirst(src, ",")))

\* C18 (as claimed): for a data URL that cannot be decoded process_images
\* returns, leaves a placeholder in place of the image, records no asset for
\* it, handles every reference, and sends no request to the gateway for it.
C18_InlineFailureNoRequest ==
    ipc = "returned" =>
        /\ Len(img_result.soup) = Len(imgs)
        /\ \A i \in DOMAIN imgs :
              InlineFails(i) =>
                  /\ img_result.soup[i].kind = "comment"
                  /\ \A k \in DOMAIN img_result.requests :
                        img_result.requests[k] # Strip(imgs[i].src)

\* An <img> whose bytes come from the gateway: a non-blank src that is not a
\* data URL.
RemoteRef(img) ==
    LET src == Strip(img.src) IN src # <<>> /\ ~StartsWith(src, DataPrefix)

\* The references process_images rewrote to a path.
Rewritten ==
    { j \in DOMAIN imgs :
         img_result.soup[j].kind = "img" /\ img_result.soup[j].src # imgs[j].src }

\* C11: when the fetch of a remote image fails (get_raw raised after its
\* retries), process_images returns; in place of the image there is a
\* placeholder with the alt text and the source of the reference; the written
\* assets are, in order, those of the rewritten references, so there is none
\* for the failed one; every other reference is handled as it would have been
\* had the fetch succeeded; the document goes on to EXPORTED or, if the
\* conversion or the write fails, to FAILED.
C11_FailedFetchLeavesPlaceholder ==
    ipc \in {"returned", "EXPORTED", "FAILED"} =>
        /\ Len(img_result.soup) = Len(imgs)
        /\ Len(img_result.downloaded) = Cardinality(Rewritten)
        /\ \A j \in Rewritten :
              img_result.downloaded[Cardinality({ x \in Rewritten : x <= j })] = AssetOf(j)
        /\ \A k \in DOMAIN imgs :
              (RemoteRef(imgs[k]) /\ ~img_got[k]) =>
                  /\ img_result.soup[k] =
                        [kind |-> "comment",
                         alt |-> IF imgs[k].alt = NoAlt THEN ImageWord ELSE imgs[k].alt,
                         src |-> Strip(imgs[k].src)]
                  /\ k \notin Rewritten
                  /\ \A j \in DOMAIN imgs \ {k} :
                        img_result.soup[j] =
                            process_images(imgs, [img_got EXCEPT ![k] = TRUE],
                                           img_assets_dir, img_relative_to).soup[j]

\* A document is EXPORTED although the fetch of its first image failed; its
\* second image, a data URL, was written and rewritten.
C11_Witness ==
    /\ ipc = "EXPORTED"
    /\ Len(imgs) = 2
    /\ imgs[1] = RemoteImage
    /\ ~img_got[1]
    /\ img_result.soup[1].kind = "comment"
    /\ imgs[2] = DataImage
    /\ Rewritten = {2}
    /\ Len(img_result.downloaded) = 1

\* ------------------------------------- claims about file names in one asset directory

\* The i-th and the j-th reference (i before j) are both obtained and map to
\* the same file of the asset directory.
Collide(i, j) == i < j /\ Obtained(i) /\ Obtained(j) /\ AssetOf(i) = AssetOf(j)

\* The last reference that is obtained and maps to the file of the i-th.
LastOn(i) ==
    CHOOSE j \in DOMAIN imgs :
        /\ Obtained(j)
        /\ AssetOf(j) = AssetOf(i)
        /\ \A k \in DOMAIN imgs : (Obtained(k) /\ AssetOf(k) = AssetOf(i)) => k <= j

\* C24 (as claimed): when two references of one document are obtained and
\* map to the same file name, process_images returns, the file holds the
\* bytes of the later reference, both references are rewritten to the same
\* path, which names that file from the directory of the Markdown file, and
\* the file is among the written assets once per reference.
C24_CollisionLastWriteWins ==
    ipc = "returned" =>
        \A i, j \in DOMAIN imgs :
            Collide(i, j) =>
                /\ Len(img_result.soup) = Len(imgs)
                /\ AssetOf(i) \in DOMAIN img_result.bytes
                /\ img_result.bytes[AssetOf(i)] = Strip(imgs[LastOn(i)].src)
                /\ img_result.soup[i].kind = "img"
                /\ img_result.soup[j] = img_result.soup[i]
                /\ Resolve(img_relative_to, img_result.soup[i].src) = AssetOf(i)
                /\ Cardinality({ k \in DOMAIN img_result.downloaded :
                                    img_result.downloaded[k] = AssetOf(i) })
                   = Cardinality({ k \in DOMAIN imgs :
                                      Obtained(k) /\ AssetOf(k) = AssetOf(i) })

\* ----------------------------------- claims about the states of the documents

Terminal == { "SKIPPED_UNCHANGED", "SKIPPED_NO_CONTENT", "EXPORTED", "FAILED" }

\* The positions of the list whose document ended in one of the states S.
EndedIn(S) == { i \in DOMAIN doc : doc[i].state \in S }

\* The entries the run has written: last_exported is the time of this run.
EntriesWritten ==
    { id \in DOMAIN manifest : IsDict(manifest) /\ manifest[id].last_exported = now }

\* C22: the documents of a run are processed in list order, each once: the
\* documents before the position of the loop have ended, the others are
\* PENDING, the position advances by one, and a document that has ended keeps
\* its state; the counters count the documents that ended EXPORTED, skipped
\* and FAILED; in a run that reaches the end of its manifest save every
\* document has ended in one of the four states, was fetched at most once,
\* exported + skipped + errors is the number of descriptors and exported is
\* the number of manifest entries written in the run.
C22_DocumentStateMachine ==
    /\ [](epc \in {"docs", "saving", "written", "done"} =>
             /\ Len(doc) = Len(threads)
             /\ \A i \in DOMAIN doc :
                   /\ (i < ti) <=> (doc[i].state \in Terminal)
                   /\ (i >= ti) <=> (doc[i].state = "PENDING")
                   /\ doc[i].fetches <= 1
                   /\ doc[i].written <=> (doc[i].state = "EXPORTED")
             /\ exported = Cardinality(EndedIn({"EXPORTED"}))
             /\ skipped = Cardinality(EndedIn({"SKIPPED_UNCHANGED", "SKIPPED_NO_CONTENT"}))
             /\ errors = Cardinality(EndedIn({"FAILED"})))
    /\ []((epc = "done" /\ saved) =>
             /\ ti = Len(threads) + 1
             /\ exported + skipped + errors = Len(threads)
             /\ exported = Cardinality(EntriesWritten))
    /\ [][(epc = "docs" /\ epc' # "raised") =>
             /\ ti' \in {ti, ti + 1}
             /\ \A i \in DOMAIN doc :
                   (doc[i].state \in Terminal \/ i # ti) => doc'[i] = doc[i]]_vars

\* The second run saved its manifest: it skipped the first document on its
\* hash and exported the second one, which had failed in the first run.
C22_Witness ==
    /\ epc = "done"
    /\ saved
    /\ second
    /\ Len(threads) = 2
    /\ doc[1].state = "SKIPPED_UNCHANGED"
    /\ doc[1].fetches = 1
    /\ doc[2].state = "EXPORTED"
    /\ prevDoc[2].state = "FAILED"
    /\ exported = 1
    /\ skipped = 1

\* ------------------------------------------ claims about the pace of requests

\* C23 (as claimed): between two consecutive requests of a call of
\* list_folder_threads (folder retrievals and thread retrievals, whether they
\* succeed or fail) there is a delay.
C23_DelayBetweenRequests == pace # "unpaced"

\* ------------------------------------- claims about the export roots of one run

\* The documents exported from folder f by the calls so far.
ExportedFrom(f) ==
    UNION { exports[k].docs : k \in { i \in DOMAIN exports : calls[i] = f } }

\* C25 (as claimed): two calls of export_folder_to_markdown for folders with
\* distinct identities use distinct export roots (and so distinct manifest
\* files), and the manifest in the export root of a call holds only
\* identities of documents exported from the folder of that call.
C25_FolderExportsIndependent ==
    /\ \A i, j \in DOMAIN exports :
          calls[i] # calls[j] => exports[i].root # exports[j].root
    /\ \A i \in DOMAIN exports :
          exports[i].root \in DOMAIN manifests =>
              manifests[exports[i].root] \subseteq ExportedFrom(calls[i])

\* --------------------------------------------- claims about the output layout

\* <export root>[/<folder path>]/<slug(title)> - <identity>.md
ClaimedMdPath(t) ==
    folder_dir
    \o (IF maintain_structure /\ t.folder_path # NoPath
        THEN PathParse(t.folder_path) ELSE <<>>)
    \o << MdName(t) >>

\* <export root>/_assets/<identity>
ClaimedAssets(t) == folder_dir \o << << "_", "a", "s", "s", "e", "t", "s" >>, t.id >>

\* C21 (as claimed): the Markdown file of every EXPORTED document is written
\* at <export root>[/<folder path>]/<slug(title)> - <identity>.md, its assets
\* go to <export root>/_assets/<identity> whatever the folder path, and the
\* assets_dir of its front matter, resolved against the directory of the
\* Markdown file, is that directory, for every folder path (one with a
\* segment whose slug is empty included).
C21_OutputLayout ==
    \A i \in DOMAIN doc :
        doc[i].state = "EXPORTED" =>
            LET t == threads[i]
                mp == ClaimedMdPath(t)
            IN  /\ mp \in mdFiles
                /\ mp \in DOMAIN frontMatter
                /\ frontMatter[mp].thread_id = t.id
                /\ doc_assets(t) = ClaimedAssets(t)
                /\ Resolve(Parent(mp), frontMatter[mp].assets_dir) = ClaimedAssets(t)

\* ------------------------------------------------- claims about a crashed run

\* The manifest a run would load now.
OnDisk == load_manifest(manifestFile)

\* The identities of a manifest with their change keys.
Covered(m) == { << id, m[id].updated_key >> : id \in DOMAIN m }

\* The first run was killed: it neither saved nor raised, and it had
\* documents.
PrevCrashed ==
    /\ second
    /\ ~prevSaved
    /\ prevThreads # <<>>
    /\ \A i \in DOMAIN prevDoc : prevDoc[i].fault = "none" \/ prevDoc[i].fault = "fetch"
                                \/ prevDoc[i].fault = "write"

\* The positions at which a document with content is listed first.
FirstWithContent ==
    { i \in DOMAIN threads :
         /\ remote[threads[i].id].html # 0
         /\ \A j \in 1..(i - 1) : threads[j].id # threads[i].id }

\* What one uninterrupted run without failures leaves on an empty export
\* root: an entry with the effective key and a Markdown file for every
\* listed document that has content.
UninterruptedKeys ==
    { << threads[i].id, EffectiveKey(threads[i], remote[threads[i].id].html) >> :
        i \in FirstWithContent }

UninterruptedDocs == { threads[i].id : i \in FirstWithContent }

\* The documents whose Markdown files are in the export root, by the thread_id
\* of their front matter.
FileDocs == { frontMatter[p].thread_id : p \in mdFiles }

\* This run reached the end of its save and none of its steps failed.
CompleteNoFault ==
    /\ epc = "done"
    /\ saved
    /\ \A i \in DOMAIN doc : doc[i].fault = "none"

\* C26: a run that follows a crashed run on the same remote folder and the
\* same list of documents, and that completes without failures, leaves a
\* manifest and Markdown files of the documents, with the change keys, that
\* one uninterrupted run without failures leaves; at every point every entry of the manifest on
\* disk, and of the one in memory, names a Markdown file that is completely
\* written.
C26_CrashRecovery ==
    /\ (CompleteNoFault /\ ~second) =>
          /\ Covered(OnDisk) = UninterruptedKeys
          /\ FileDocs = UninterruptedDocs
    /\ (CompleteNoFault /\ PrevCrashed /\ threads = prevThreads) =>
          /\ Covered(OnDisk) = UninterruptedKeys
          /\ FileDocs = UninterruptedDocs
    /\ \A id \in DOMAIN OnDisk : (folder_dir \o OnDisk[id].filename) \in mdFiles
    /\ \A id \in DOMAIN manifest : (folder_dir \o manifest[id].filename) \in mdFiles

\* The first run was killed after it exported its first document and before
\* it recorded the second one, whose file was written; the second run
\* exported both.
C26_Witness ==
    /\ CompleteNoFault
    /\ PrevCrashed
    /\ threads = prevThreads
    /\ Len(threads) = 2
    /\ prevDoc[1].state = "EXPORTED"
    /\ prevDoc[2].state = "PENDING"
    /\ doc[1].state = "EXPORTED"
    /\ doc[2].state = "EXPORTED"
    /\ Cardinality(mdFiles) = 2

====
